---- MODULE Spec2Model ----
(***************************************************************************)
(* A model of quibble/commands.py: the steps of a quibble job, the scoped  *)
(* services they start (DevWebServer, Xvfb, ChromeWebDriver, database),    *)
(* the parallel sub-task runner they submit to and the driver that runs    *)
(* them in sequence.                                                       *)
(***************************************************************************)
EXTENDS Integers, Sequences, FiniteSets, TLC

(***************************************************************************)
(* Bounds of the model.                                                    *)
(***************************************************************************)
\* how many times execute() is called on one BrowserTests / UserCommands object
MaxRuns == 2
\* the longest list of user commands
MaxCommands == 2
\* the longest pipeline
MaxSteps == 3
\* the largest worker count of the parallel runner
MaxWorkers == 2
\* the deepest directory below extensions/ and skins/
MaxDepth == 2
\* the longest list of dependencies given to CreateComposerLocal
MaxDeps == 2
\* the most entries of require-dev in composer.json of mediawiki/core
MaxReqs == 2
\* how many times execute() of a phpunit step is called
MaxCalls == 3

(***************************************************************************)
(* Program constants.                                                      *)
(***************************************************************************)
HTTP_PORT == 9412

\* self.display when no display was given (None / empty: falsy in Python)
NoDisplay == "None"
\* the display BrowserTests picks for Xvfb
XvfbDisplay == ":94"
\* displays a caller can pass to BrowserTests
Displays == {NoDisplay, ":0", XvfbDisplay}

NoExc == "none"

VARIABLES
    \* ---- BrowserTests / UserCommands: one step object and one call of execute()
    step,        \* the attributes of the step object (self.*)
    seleniumDir, \* os.path.exists(<mw_install_path>/tests/selenium)
    pc,          \* position of the running execute()
    scopes,      \* context managers entered and not yet exited, outermost first
    exc,         \* the exception propagating, NoExc when none
    log,         \* what this call of execute() did, in order
    cmdIdx,      \* UserCommands: index of the next command
    strBefore,   \* str(step) when execute() was called
    outcome,     \* how execute() ended: "none" while running
    runs,        \* calls of execute() made so far
    constructed, \* the attributes the step object was constructed with
    \* ---- InstallMediaWiki: one step object and one call of execute()
    imw,         \* the attributes of the step object (self.*)
    ipc,         \* position of the running execute()
    db_backend,  \* the class attribute InstallMediaWiki.db_backend
    dbState,     \* the database handle: "unstarted", "running" or "stopped"
    ilog,        \* the external operations execute() invoked, in order
    iexc,        \* the exception execute() raised, NoExc when none
    \* ---- the pipeline driver
    pipeline,    \* the steps of the run, in declared order
    pstate,      \* "pending", "running" (a step executes), "completed", "halted"
    pcur,        \* index of the step executing, or of the next one
    pcalls,      \* the indexes of the steps whose execute() was invoked, in order
    pfailed,     \* index of the step that failed, 0 when none
    \* ---- ExtSkinComposerNpmTest / CoreNpmComposerTest and the task runner
    tstep,       \* the attributes of the step object (self.*)
    manifests,   \* the manifests present in self.directory
    changed,     \* the files changed in HEAD of mw_install_path
    workers,     \* the worker count of the parallel runner
    tpc,         \* position of the running execute()
    tasks,       \* the task batch given to parallel_run, in submission order
    tstatus,     \* per sub-task: "none", "pending", "running", "ok", "failed"
    tcmds,       \* per sub-task: the commands it decided to run
    tidx,        \* per sub-task: index of its next command
    tlog,        \* the external commands and log decisions, in order
    texc,        \* the exception execute() raised, NoExc when none
    \* ---- ExtSkinSubmoduleUpdateCommand
    dirs,        \* the directories that exist below mw_install_path
    gitmodules,  \* the directories that hold a .gitmodules file
    spc,         \* position of the running execute()
    wtop,        \* index in tops of the next top to walk
    wstack,      \* os.walk: the directories still to be yielded, next first
    wdir,        \* the dirpath whose git commands are running
    wcmd,        \* index in cmds of the next git command for wdir
    slog,        \* the git commands invoked, in order
    sexc,        \* the exception execute() raised, NoExc when none
    \* ---- the environment given to the external commands
    environ,     \* os.environ: the ambient environment of the process
    edisplay,    \* self.display of the BrowserTests step running selenium
    ecmd,        \* the command invoked with env=..., "none" before
    eenv,        \* the environment it was given
    \* ---- CreateComposerLocal
    dependencies, \* self.dependencies: the names of the repositories, in order
    cpc,         \* position of execute()
    include,     \* the merge-plugin include list written to composer.local.json
    \* ---- the steps that run a fixed list of commands
    fstep,       \* the step or sub-task: its kind and what it reads from disk
    fpc,         \* position of execute(): "idle", "running", "done"
    fcmds,       \* the commands execute() has decided to run, in order
    fidx,        \* index in fcmds of the next command
    flog,        \* the commands invoked and how each ended, in order
    fexc,        \* the exception execute() raised, NoExc when none
    \* ---- PhpUnitDatabaseless / PhpUnitDatabase
    defaults,    \* the lists bound to the default arguments of run_phpunit
    ulog         \* the phpunit invocations made so far, in order

bVars == <<step, seleniumDir, pc, scopes, exc, log, cmdIdx, strBefore, outcome, runs,
          constructed>>
iVars == <<imw, ipc, db_backend, dbState, ilog, iexc>>

pVars == <<pipeline, pstate, pcur, pcalls, pfailed>>

tVars == <<tstep, manifests, changed, workers, tpc, tasks, tstatus, tcmds, tidx, tlog, texc>>

sVars == <<dirs, gitmodules, spc, wtop, wstack, wdir, wcmd, slog, sexc>>

eVars == <<environ, edisplay, ecmd, eenv>>

cVars == <<dependencies, cpc, include>>

fVars == <<fstep, fpc, fcmds, fidx, flog, fexc>>

uVars == <<defaults, ulog>>

vars == <<bVars, iVars, pVars, tVars, sVars, eVars, cVars, fVars, uVars>>

(***************************************************************************)
(* Helpers                                                                 *)
(***************************************************************************)
\* one entry of the log: res is "ok" or the exception the operation raised
Ev(op, what, arg, res) == [op |-> op, what |-> what, arg |-> arg, res |-> res]

Last(s) == s[Len(s)]
Front(s) == SubSeq(s, 1, Len(s) - 1)

\* the indexes of log entries with a given operation on a given thing
Idx(l, op, what) == {i \in 1..Len(l) : l[i].op = op /\ l[i].what = what}

(***************************************************************************)
(* The step objects                                                        *)
(***************************************************************************)
\* BrowserTests.__init__
BrowserTests(qunit, selenium, display) ==
    [kind |-> "BrowserTests", qunit |-> qunit, selenium |-> selenium,
     display |-> display, commands |-> <<>>]

\* UserCommands.__init__
UserCommands(commands) ==
    [kind |-> "UserCommands", qunit |-> FALSE, selenium |-> FALSE,
     display |-> NoDisplay, commands |-> commands]

CommandLists == {SubSeq(<<"cmd1", "cmd2", "cmd3", "cmd4">>, 1, n) : n \in 0..MaxCommands}

BrowserSteps ==
    {BrowserTests(q, s, d) : q \in BOOLEAN, s \in BOOLEAN, d \in Displays}
    \cup {UserCommands(c) : c \in CommandLists}

\* BrowserTests.__str__ / UserCommands.__str__
Str(s) ==
    IF s.kind = "BrowserTests"
    THEN [text |-> "Browser tests",
          tests |-> (IF s.qunit THEN <<"qunit">> ELSE <<>>)
                    \o (IF s.selenium THEN <<"selenium (maybe)">> ELSE <<>>),
          display |-> IF s.display = NoDisplay THEN "Xvfb" ELSE s.display]
    ELSE [text |-> "User commands", tests |-> s.commands, display |-> ""]

(***************************************************************************)
(* Scoped services: the with statements and the ExitStack                  *)
(***************************************************************************)
\* a slip: Xvfb is started but not registered with the ExitStack
enter_context_without_xvfb(sc, h) == IF h = "Xvfb" THEN sc ELSE Append(sc, h)

\* with X(...): / stack.enter_context(X(...)): X is exited when the scope unwinds
enter_context(sc, h) == Append(sc, h)

\* a slip: the outermost context manager is exited whichever is innermost
NextToExit_outermost(sc) == Head(sc)

\* the context manager exited next when the scopes unwind: the innermost
NextToExit(sc) == Last(sc)

\* a slip: a failing stop() raises out of __exit__
ExcAfterStop_raising(e, stopped_ok) == IF stopped_ok THEN e ELSE "StopError"

\* Service handle __exit__: stop() is best effort; a failure to stop is logged
\* as a warning and leaves the propagating exception (or its absence) as it is
ExcAfterStop(e, stopped_ok) == e

\* a slip: a failed start() is swallowed and the body runs anyway
AfterEnter_swallowing(ok, body) == body

\* where execute() continues after X.__enter__: in the body of the with block,
\* or, when start() raised, unwinding the enclosing scopes
AfterEnter(ok, body) == IF ok THEN body ELSE "unwind"

StartRes(ok) == IF ok THEN "ok" ELSE "StartError"
StopRes(ok) == IF ok THEN "ok" ELSE "StopError"

\* variables of the other components, left alone by the browser steps
bOthers == <<iVars, pVars, tVars, sVars, eVars, cVars, fVars, uVars>>

\* the outcomes of a blocking external command: exit 0, exit non-zero
\* (subprocess.CalledProcessError), or an operator interrupt while it runs
RunOutcomes == {"ok", "CalledProcessError", "KeyboardInterrupt"}

\* a slip: a non-zero exit is not turned into an exception
ExcOf_ignoring_exit(o) == IF o = "CalledProcessError" THEN NoExc ELSE o

ExcOf(o) == IF o = "ok" THEN NoExc ELSE o

(***************************************************************************)
(* BrowserTests.execute and UserCommands.execute                           *)
(***************************************************************************)
InitBrowser ==
    /\ step \in BrowserSteps
    /\ seleniumDir \in BOOLEAN
    /\ pc = "idle"
    /\ scopes = <<>>
    /\ exc = NoExc
    /\ log = <<>>
    /\ cmdIdx = 1
    /\ strBefore = Str(step)
    /\ outcome = "none"
    /\ runs = 0
    /\ constructed = step

\* the caller calls step.execute()
Execute ==
    /\ pc = "idle"
    /\ runs < MaxRuns
    /\ runs' = runs + 1
    /\ pc' = "enter_web"
    /\ scopes' = <<>>
    /\ exc' = NoExc
    /\ log' = <<>>
    /\ cmdIdx' = 1
    /\ strBefore' = Str(step)
    /\ outcome' = "none"
    /\ UNCHANGED <<step, seleniumDir, constructed>>
    /\ UNCHANGED bOthers

\* with quibble.backend.DevWebServer(mwdir=..., port=HTTP_PORT):
DevWebServer_enter ==
    /\ pc = "enter_web"
    /\ \E ok \in BOOLEAN :
        /\ log' = Append(log, Ev("start", "DevWebServer", HTTP_PORT, StartRes(ok)))
        /\ scopes' = IF ok THEN enter_context(scopes, "DevWebServer") ELSE scopes
        /\ exc' = IF ok THEN exc ELSE "StartError"
        /\ pc' = AfterEnter(ok, IF step.kind = "BrowserTests" THEN "qunit" ELSE "commands")
    /\ UNCHANGED <<step, seleniumDir, constructed, cmdIdx, strBefore, outcome, runs>>
    /\ UNCHANGED bOthers

\* if self.qunit: self.run_qunit()
run_qunit ==
    /\ pc = "qunit"
    /\ IF step.qunit
       THEN \E o \in RunOutcomes :
               /\ log' = Append(log, Ev("run", "qunit", NoDisplay, o))
               /\ exc' = ExcOf(o)
               /\ pc' = IF o = "ok" THEN "selenium" ELSE "unwind"
       ELSE /\ pc' = "selenium"
            /\ UNCHANGED <<log, exc>>
    /\ UNCHANGED <<step, seleniumDir, constructed, scopes, cmdIdx, strBefore, outcome, runs>>
    /\ UNCHANGED bOthers

\* if self.selenium and os.path.exists(.../tests/selenium): with ExitStack() ...
selenium_check ==
    /\ pc = "selenium"
    /\ pc' = IF step.selenium /\ seleniumDir THEN "xvfb" ELSE "unwind"
    /\ UNCHANGED <<step, seleniumDir, constructed, scopes, exc, log, cmdIdx, strBefore, outcome, runs>>
    /\ UNCHANGED bOthers

\* the value execute() leaves in self.display before Xvfb is started
DisplayForXvfb(s) == [s EXCEPT !.display = XvfbDisplay]

\* if not self.display: self.display = ':94'; stack.enter_context(Xvfb(...))
Xvfb_enter ==
    /\ pc = "xvfb"
    /\ IF step.display = NoDisplay
       THEN /\ step' = DisplayForXvfb(step)
            /\ \E ok \in BOOLEAN :
                /\ log' = Append(log, Ev("start", "Xvfb", step'.display, StartRes(ok)))
                /\ scopes' = IF ok THEN enter_context(scopes, "Xvfb") ELSE scopes
                /\ exc' = IF ok THEN exc ELSE "StartError"
                /\ pc' = AfterEnter(ok, "driver")
       ELSE /\ pc' = "driver"
            /\ UNCHANGED <<step, log, scopes, exc>>
    /\ UNCHANGED <<seleniumDir, constructed, cmdIdx, strBefore, outcome, runs>>
    /\ UNCHANGED bOthers

\* with quibble.backend.ChromeWebDriver(display=self.display):
ChromeWebDriver_enter ==
    /\ pc = "driver"
    /\ \E ok \in BOOLEAN :
        /\ log' = Append(log, Ev("start", "ChromeWebDriver", step.display, StartRes(ok)))
        /\ scopes' = IF ok THEN enter_context(scopes, "ChromeWebDriver") ELSE scopes
        /\ exc' = IF ok THEN exc ELSE "StartError"
        /\ pc' = AfterEnter(ok, "webdriver")
    /\ UNCHANGED <<step, seleniumDir, constructed, cmdIdx, strBefore, outcome, runs>>
    /\ UNCHANGED bOthers

\* self.run_webdriver(): npm run selenium-test with DISPLAY=self.display
run_webdriver ==
    /\ pc = "webdriver"
    /\ \E o \in RunOutcomes :
        /\ log' = Append(log, Ev("run", "selenium", step.display, o))
        /\ exc' = ExcOf(o)
        /\ pc' = "unwind"
    /\ UNCHANGED <<step, seleniumDir, constructed, scopes, cmdIdx, strBefore, outcome, runs>>
    /\ UNCHANGED bOthers

\* for cmd in self.commands: subprocess.check_call(cmd, shell=True, ...)
run_user_command ==
    /\ pc = "commands"
    /\ IF cmdIdx <= Len(step.commands)
       THEN \E o \in RunOutcomes :
               /\ log' = Append(log, Ev("run", step.commands[cmdIdx], NoDisplay, o))
               /\ exc' = ExcOf(o)
               /\ cmdIdx' = cmdIdx + 1
               /\ pc' = IF o = "ok" THEN "commands" ELSE "unwind"
       ELSE /\ pc' = "unwind"
            /\ UNCHANGED <<log, exc, cmdIdx>>
    /\ UNCHANGED <<step, seleniumDir, constructed, scopes, strBefore, outcome, runs>>
    /\ UNCHANGED bOthers

\* positions inside the body of the outer with statement
InScope == {"qunit", "selenium", "xvfb", "driver", "webdriver", "commands"}

\* the operator aborts the run: KeyboardInterrupt is raised inside the scope
Interrupt ==
    /\ pc \in InScope
    /\ exc' = "KeyboardInterrupt"
    /\ log' = Append(log, Ev("interrupt", "execute", NoDisplay, "KeyboardInterrupt"))
    /\ pc' = "unwind"
    /\ UNCHANGED <<step, seleniumDir, constructed, scopes, cmdIdx, strBefore, outcome, runs>>
    /\ UNCHANGED bOthers

\* leaving a with block / ExitStack: __exit__ of the innermost entered manager
Unwind ==
    /\ pc = "unwind"
    /\ scopes # <<>>
    /\ \E ok \in BOOLEAN :
        /\ log' = Append(log, Ev("stop", NextToExit(scopes), NoDisplay, StopRes(ok)))
        /\ exc' = ExcAfterStop(exc, ok)
    /\ scopes' = Front(scopes)
    /\ UNCHANGED <<step, seleniumDir, constructed, pc, cmdIdx, strBefore, outcome, runs>>
    /\ UNCHANGED bOthers

\* execute() gives control back: return, or the propagating exception
Return ==
    /\ pc = "unwind"
    /\ scopes = <<>>
    /\ outcome' = IF exc = NoExc THEN "returned" ELSE "raised"
    /\ pc' = "done"
    /\ UNCHANGED <<step, seleniumDir, constructed, scopes, exc, log, cmdIdx, strBefore, runs>>
    /\ UNCHANGED bOthers

\* the same step object is executed again
Reexecute ==
    /\ pc = "done"
    /\ runs < MaxRuns
    /\ pc' = "idle"
    /\ UNCHANGED <<step, seleniumDir, constructed, scopes, exc, log, cmdIdx, strBefore, outcome, runs>>
    /\ UNCHANGED bOthers

\* the run goes on with another step object, constructed afresh
NextStep ==
    /\ pc = "done"
    /\ runs < MaxRuns
    /\ step' \in BrowserSteps
    /\ constructed' = step'
    /\ pc' = "idle"
    /\ UNCHANGED <<seleniumDir, scopes, exc, log, cmdIdx, strBefore, outcome, runs>>
    /\ UNCHANGED bOthers

NextBrowser ==
    \/ Execute
    \/ DevWebServer_enter
    \/ run_qunit
    \/ selenium_check
    \/ Xvfb_enter
    \/ ChromeWebDriver_enter
    \/ run_webdriver
    \/ run_user_command
    \/ Interrupt
    \/ Unwind
    \/ Return
    \/ Reexecute
    \/ NextStep


(***************************************************************************)
(* InstallMediaWiki.execute                                                *)
(***************************************************************************)
iOthers == <<bVars, pVars, tVars, sVars, eVars, cVars, fVars, uVars>>

\* db_engine values: the three execute() knows, one more the backend factory
\* has a class for, and one nobody knows
Engines == {"sqlite", "mysql", "postgres", "mariadb", "oracle"}

\* InstallMediaWiki.__init__
InstallMediaWiki(db_engine, use_vendor) ==
    [db_engine |-> db_engine, use_vendor |-> use_vendor]

\* quibble.backend.getDBClass: the engines the factory has a class for
FactoryEngines == {"sqlite", "mysql", "postgres", "mariadb"}

\* db_backend = None
NoDb == [class |-> "None", dbname |-> "None"]

\* the handle dbclass(base_dir=..., dump_dir=...) constructs
DbHandle(engine) == [class |-> engine, dbname |-> "db.dbname"]

\* a slip: the handle is not kept in the class attribute
HeldReference_dropped(db) == NoDb

\* InstallMediaWiki.db_backend = db  ("hold a reference to prevent gc")
HeldReference(db) == db

\* install_args as execute() builds them; <<>> stands for the raise of the
\* else branch
install_args(engine) ==
    LET base == << <<"--scriptpath", "">>, <<"--dbtype", engine>>,
                   <<"--dbname", "db.dbname">> >>
    IN IF engine = "sqlite"
       THEN base \o << <<"--dbpath", "db.rootdir">> >>
       ELSE IF engine \in {"mysql", "postgres"}
       THEN base \o << <<"--dbuser", "db.user">>, <<"--dbpass", "db.password">>,
                       <<"--dbserver", "db.dbserver">> >>
       ELSE <<>>

\* a slip: the external dependencies are skipped whatever use_vendor is
update_args_always_skip(use_vendor) == <<"--skip-external-dependencies">>

\* update_args as execute() builds them
update_args(use_vendor) ==
    IF use_vendor THEN <<"--skip-external-dependencies">> ELSE <<>>

IEv(op, args, res) == [op |-> op, args |-> args, res |-> res]

InitInstall ==
    /\ imw \in {InstallMediaWiki(e, v) : e \in Engines, v \in BOOLEAN}
    /\ ipc = "idle"
    /\ db_backend = NoDb
    /\ dbState = "unstarted"
    /\ ilog = <<>>
    /\ iexc = NoExc

\* dbclass = getDBClass(engine=...); db = dbclass(...); db_backend = db
IMW_getDBClass ==
    /\ ipc = "idle"
    /\ IF imw.db_engine \in FactoryEngines
       THEN /\ db_backend' = HeldReference(DbHandle(imw.db_engine))
            /\ ipc' = "db_start"
            /\ iexc' = iexc
       ELSE /\ db_backend' = db_backend
            /\ ipc' = "done"
            /\ iexc' = "Exception"
    /\ UNCHANGED <<imw, dbState, ilog>>
    /\ UNCHANGED iOthers

\* db.start()
IMW_db_start ==
    /\ ipc = "db_start"
    /\ \E ok \in BOOLEAN :
        /\ ilog' = Append(ilog, IEv("db.start", <<>>, StartRes(ok)))
        /\ dbState' = IF ok THEN "running" ELSE dbState
        /\ iexc' = IF ok THEN iexc ELSE "StartError"
        /\ ipc' = IF ok THEN "install_args" ELSE "done"
    /\ UNCHANGED <<imw, db_backend>>
    /\ UNCHANGED iOthers

\* install_args = [...]; else: raise Exception('Unsupported database: ...')
IMW_install_args ==
    /\ ipc = "install_args"
    /\ IF install_args(imw.db_engine) = <<>>
       THEN /\ iexc' = "Exception"
            /\ ipc' = "done"
       ELSE /\ iexc' = iexc
            /\ ipc' = "install"
    /\ UNCHANGED <<imw, db_backend, dbState, ilog>>
    /\ UNCHANGED iOthers

\* a slip: the database is updated before LocalSettings.php is linted
IMW_steps_update_before_lint ==
    << [at |-> "install", op |-> "install", next |-> "prepend"],
       [at |-> "prepend", op |-> "prepend LocalSettings.php", next |-> "update"],
       [at |-> "update", op |-> "update", next |-> "lint"],
       [at |-> "lint", op |-> "php -l", next |-> "rebuild"],
       [at |-> "rebuild", op |-> "rebuildLocalisationCache", next |-> "done"] >>

\* the external operations of execute() after the database start, in the
\* order of the code, each with the position that follows it
IMW_steps ==
    << [at |-> "install", op |-> "install", next |-> "prepend"],
       [at |-> "prepend", op |-> "prepend LocalSettings.php", next |-> "lint"],
       [at |-> "lint", op |-> "php -l", next |-> "update"],
       [at |-> "update", op |-> "update", next |-> "rebuild"],
       [at |-> "rebuild", op |-> "rebuildLocalisationCache", next |-> "done"] >>

\* the arguments execute() gives to an operation
IMW_args(op) ==
    IF op = "install" THEN install_args(imw.db_engine)
    ELSE IF op = "update" THEN update_args(imw.use_vendor)
    ELSE IF op = "rebuildLocalisationCache" THEN <<"en">>
    ELSE <<>>

\* quibble.mediawiki.maintenance.install / open(localsettings) /
\* subprocess.check_call(['php', '-l', ...]) / update / rebuildLocalisationCache:
\* each blocks and either succeeds or raises out of execute()
IMW_operation ==
    /\ \E k \in 1..Len(IMW_steps) :
        /\ ipc = IMW_steps[k].at
        /\ \E o \in RunOutcomes :
            /\ ilog' = Append(ilog, IEv(IMW_steps[k].op, IMW_args(IMW_steps[k].op), o))
            /\ iexc' = ExcOf(o)
            /\ ipc' = IF o = "ok" THEN IMW_steps[k].next ELSE "done"
    /\ UNCHANGED <<imw, db_backend, dbState>>
    /\ UNCHANGED iOthers

NextInstall ==
    \/ IMW_getDBClass
    \/ IMW_db_start
    \/ IMW_install_args
    \/ IMW_operation

(***************************************************************************)
(* The pipeline driver: run(pipeline)                                      *)
(***************************************************************************)
pOthers == <<bVars, iVars, tVars, sVars, eVars, cVars, fVars, uVars>>

\* the steps a pipeline is made of (the classes of quibble/commands.py)
StepKinds == {"InstallMediaWiki", "PhpUnitDatabase", "BrowserTests"}

RECURSIVE SeqsUpTo(_, _)
\* the sequences over S of length at most n
SeqsUpTo(S, n) ==
    IF n = 0 THEN {<<>>}
    ELSE LET shorter == SeqsUpTo(S, n - 1)
         IN shorter \cup {Append(q, x) : q \in shorter, x \in S}

InitPipeline ==
    /\ pipeline \in SeqsUpTo(StepKinds, MaxSteps)
    /\ pstate = "pending"
    /\ pcur = 1
    /\ pcalls = <<>>
    /\ pfailed = 0

\* a slip: the driver carries on with the next step after a failure
AfterStepFailure_continuing(j) ==
    [state |-> IF j < Len(pipeline) THEN "pending" ELSE "completed", cur |-> j + 1]

\* on a step's failure the driver stops: no later step, no retry
AfterStepFailure(j) == [state |-> "halted", cur |-> j]

\* the driver logs the description of the next step and calls its execute()
Driver_run_next ==
    /\ pstate = "pending"
    /\ pcur <= Len(pipeline)
    /\ pstate' = "running"
    /\ pcalls' = Append(pcalls, pcur)
    /\ UNCHANGED <<pipeline, pcur, pfailed>>
    /\ UNCHANGED pOthers

\* execute() of the running step returns
Driver_step_returns ==
    /\ pstate = "running"
    /\ pcur' = pcur + 1
    /\ pstate' = IF pcur < Len(pipeline) THEN "pending" ELSE "completed"
    /\ UNCHANGED <<pipeline, pcalls, pfailed>>
    /\ UNCHANGED pOthers

\* execute() of the running step raises
Driver_step_fails ==
    /\ pstate = "running"
    /\ pfailed' = pcur
    /\ pstate' = AfterStepFailure(pcur).state
    /\ pcur' = AfterStepFailure(pcur).cur
    /\ UNCHANGED <<pipeline, pcalls>>
    /\ UNCHANGED pOthers

\* run() of an empty pipeline
Driver_nothing_to_run ==
    /\ pstate = "pending"
    /\ pcur > Len(pipeline)
    /\ pstate' = "completed"
    /\ UNCHANGED <<pipeline, pcur, pcalls, pfailed>>
    /\ UNCHANGED pOthers

NextPipeline ==
    \/ Driver_run_next
    \/ Driver_step_returns
    \/ Driver_step_fails
    \/ Driver_nothing_to_run

(***************************************************************************)
(* ExtSkinComposerNpmTest.execute, CoreNpmComposerTest.execute and the     *)
(* parallel runner they submit their sub-tasks to                          *)
(***************************************************************************)
tOthers == <<bVars, iVars, pVars, sVars, eVars, cVars, fVars, uVars>>

TaskNames == {"composer", "npm"}

\* ExtSkinComposerNpmTest.__init__ / CoreNpmComposerTest.__init__
ComposerNpmTest(kind, composer, npm) ==
    [kind |-> kind, composer |-> composer, npm |-> npm]

\* files of the repository that HEAD may have changed, with their extension
FileExt ==
    [f \in {"composer.json", ".phpcs.xml", "a.php", "b.php5", "c.inc",
            "d.sample", "e.js"} |->
        CASE f = "composer.json" -> "json"
          [] f = ".phpcs.xml" -> "xml"
          [] f = "a.php" -> "php"
          [] f = "b.php5" -> "php5"
          [] f = "c.inc" -> "inc"
          [] f = "d.sample" -> "sample"
          [] f = "e.js" -> "js"]

Files == DOMAIN FileExt

\* GitChangedInHead(extensions, cwd).changedFiles(): the changed files, all
\* of them for an empty filter, else those with one of the extensions
changedFiles(extensions, ch) ==
    IF extensions = {} THEN ch ELSE {f \in ch : FileExt[f] \in extensions}

\* a slip: a change of .phpcs.xml alone no longer lints "."
composer_test_files_no_phpcs(ch) ==
    IF "composer.json" \in changedFiles({}, ch)
    THEN {"."}
    ELSE changedFiles({"php", "php5", "inc", "sample"}, ch)

\* run_composer_test: the files given to 'composer test'
composer_test_files(ch) ==
    IF "composer.json" \in changedFiles({}, ch) \/ ".phpcs.xml" \in changedFiles({}, ch)
    THEN {"."}
    ELSE changedFiles({"php", "php5", "inc", "sample"}, ch)

Cmd(cmd, args) == [cmd |-> cmd, args |-> args]

\* a slip: the sub-tasks of ExtSkinComposerNpmTest do not look for their manifest
TaskCommands_without_manifest_check(s, t, mf, ch) ==
    IF s.kind = "ExtSkin"
    THEN IF t = "composer"
         THEN << Cmd("composer --ansi validate --no-check-publish", {}),
                 Cmd("composer --ansi install --no-progress --prefer-dist --profile -v", {}),
                 Cmd("composer --ansi test", {}) >>
         ELSE << Cmd("npm prune", {}),
                 Cmd("npm install --no-progress", {}),
                 Cmd("npm test", {}) >>
    ELSE IF t = "composer"
         THEN IF composer_test_files(ch) = {} THEN <<>>
              ELSE << Cmd("composer test", composer_test_files(ch)) >>
         ELSE << Cmd("npm test", {}) >>

\* the commands a sub-task runs, decided when it starts; <<>> when it skips
TaskCommands(s, t, mf, ch) ==
    IF s.kind = "ExtSkin"
    THEN IF t = "composer"
         THEN IF "composer.json" \notin mf THEN <<>>
              ELSE << Cmd("composer --ansi validate --no-check-publish", {}),
                      Cmd("composer --ansi install --no-progress --prefer-dist --profile -v", {}),
                      Cmd("composer --ansi test", {}) >>
         ELSE IF "package.json" \notin mf THEN <<>>
              ELSE << Cmd("npm prune", {}),
                      Cmd("npm install --no-progress", {}),
                      Cmd("npm test", {}) >>
    ELSE IF t = "composer"
         THEN IF composer_test_files(ch) = {} THEN <<>>
              ELSE << Cmd("composer test", composer_test_files(ch)) >>
         ELSE << Cmd("npm test", {}) >>

\* what a sub-task logs when it decides to run nothing
SkipMessage(s, t) ==
    IF s.kind = "ExtSkin"
    THEN IF t = "composer" THEN "lacks a composer.json" ELSE "lacks a package.json"
    ELSE "Skipping composer test (unneeded)"

\* a slip: npm is only submitted when composer is not
TaskList_elif(s) ==
    IF s.composer THEN <<"composer">> ELSE IF s.npm THEN <<"npm">> ELSE <<>>

\* tasks = []; if self.composer: tasks.append(...); if self.npm: tasks.append(...)
TaskList(s) ==
    (IF s.composer THEN <<"composer">> ELSE <<>>)
    \o (IF s.npm THEN <<"npm">> ELSE <<>>)

TEv(task, cmd, args, res) == [task |-> task, cmd |-> cmd, args |-> args, res |-> res]

InitTasks ==
    /\ tstep \in {ComposerNpmTest(k, c, n) :
                    k \in {"ExtSkin", "Core"}, c \in BOOLEAN, n \in BOOLEAN}
    /\ manifests \in IF tstep.kind = "ExtSkin"
                     THEN SUBSET {"composer.json", "package.json"} ELSE {{}}
    /\ changed \in IF tstep.kind = "Core" THEN SUBSET Files ELSE {{}}
    /\ workers \in 1..MaxWorkers
    /\ tpc = "idle"
    /\ tasks = <<>>
    /\ tstatus = [t \in TaskNames |-> "none"]
    /\ tcmds = [t \in TaskNames |-> <<>>]
    /\ tidx = [t \in TaskNames |-> 1]
    /\ tlog = <<>>
    /\ texc = NoExc

InBatch(t) == \E i \in 1..Len(tasks) : tasks[i] = t

\* a slip: the runner gives control back as soon as one sub-task has finished
AllFinished_first_one == \E t \in TaskNames : InBatch(t) /\ tstatus[t] \in {"ok", "failed"}

AllFinished == \A t \in TaskNames : InBatch(t) => tstatus[t] \in {"ok", "failed"}

\* execute(): build the task batch and call parallel_run(tasks)
TB_execute ==
    /\ tpc = "idle"
    /\ tasks' = TaskList(tstep)
    /\ tstatus' = [t \in TaskNames |->
                     IF \E i \in 1..Len(tasks') : tasks'[i] = t THEN "pending" ELSE "none"]
    /\ tpc' = "parallel_run"
    /\ UNCHANGED <<tstep, manifests, changed, workers, tcmds, tidx, tlog, texc>>
    /\ UNCHANGED tOthers

\* a free worker takes a pending sub-task: the sub-task checks what it has
\* to do (manifest present, files changed) and skips, logging it, or goes on
Task_start(t) ==
    /\ tpc = "parallel_run"
    /\ tstatus[t] = "pending"
    /\ Cardinality({u \in TaskNames : tstatus[u] = "running"}) < workers
    /\ LET cmds == TaskCommands(tstep, t, manifests, changed)
       IN /\ tcmds' = [tcmds EXCEPT ![t] = cmds]
          /\ IF cmds = <<>>
             THEN /\ tstatus' = [tstatus EXCEPT ![t] = "ok"]
                  /\ tlog' = Append(tlog, TEv(t, "log", {SkipMessage(tstep, t)}, "ok"))
             ELSE /\ tstatus' = [tstatus EXCEPT ![t] = "running"]
                  /\ tlog' = tlog
    /\ UNCHANGED <<tstep, manifests, changed, workers, tpc, tasks, tidx, texc>>
    /\ UNCHANGED tOthers

\* for cmd in cmds: subprocess.check_call(cmd, ...): the next command of a
\* running sub-task; a non-zero exit raises out of the sub-task
Task_check_call(t) ==
    /\ tpc = "parallel_run"
    /\ tstatus[t] = "running"
    /\ \E ok \in BOOLEAN :
        /\ tlog' = Append(tlog, TEv(t, tcmds[t][tidx[t]].cmd, tcmds[t][tidx[t]].args,
                                    IF ok THEN "ok" ELSE "CalledProcessError"))
        /\ tidx' = [tidx EXCEPT ![t] = @ + 1]
        /\ tstatus' = [tstatus EXCEPT ![t] =
                         IF ~ok THEN "failed"
                         ELSE IF tidx[t] = Len(tcmds[t]) THEN "ok" ELSE "running"]
    /\ UNCHANGED <<tstep, manifests, changed, workers, tpc, tasks, tcmds, texc>>
    /\ UNCHANGED tOthers

\* parallel_run returns to execute() once every sub-task of the batch has
\* finished: normally if all succeeded, raising if one failed
parallel_run_returns ==
    /\ tpc = "parallel_run"
    /\ AllFinished
    /\ IF \E t \in TaskNames : tstatus[t] = "failed"
       THEN /\ texc' = "Exception"
            /\ tpc' = "done"
       ELSE /\ texc' = texc
            /\ tpc' = IF tstep.kind = "ExtSkin" THEN "git_clean" ELSE "done"
    /\ UNCHANGED <<tstep, manifests, changed, workers, tasks, tstatus, tcmds, tidx, tlog>>
    /\ UNCHANGED tOthers

\* subprocess.check_call(['git', 'clean', '-xqdf'], cwd=self.directory)
git_clean ==
    /\ tpc = "git_clean"
    /\ \E ok \in BOOLEAN :
        /\ tlog' = Append(tlog, TEv("execute", "git clean -xqdf", {},
                                    IF ok THEN "ok" ELSE "CalledProcessError"))
        /\ texc' = IF ok THEN texc ELSE "CalledProcessError"
    /\ tpc' = "done"
    /\ UNCHANGED <<tstep, manifests, changed, workers, tasks, tstatus, tcmds, tidx>>
    /\ UNCHANGED tOthers

NextTasks ==
    \/ TB_execute
    \/ \E t \in TaskNames : Task_start(t)
    \/ \E t \in TaskNames : Task_check_call(t)
    \/ parallel_run_returns
    \/ git_clean

(***************************************************************************)
(* ExtSkinSubmoduleUpdateCommand.execute                                   *)
(***************************************************************************)
sOthers == <<bVars, iVars, pVars, tVars, eVars, cVars, fVars, uVars>>

\* cmds
cmds ==
    << "git submodule foreach git clean -xdff -q",
       "git submodule update --init --recursive",
       "git submodule status" >>

\* tops: a directory is the sequence of names below mw_install_path
tops == << <<"extensions">>, <<"skins">> >>

TopSet == {tops[i] : i \in 1..Len(tops)}

RECURSIVE Chain(_, _)
\* d with k times "sub" below it
Chain(d, k) == IF k = 0 THEN d ELSE Append(Chain(d, k - 1), "sub")

\* the directories a tree can have: A and B below each top, and a chain of
\* sub directories below A
DirUniverse ==
    TopSet
    \cup {Append(t, n) : t \in TopSet, n \in {"A", "B"}}
    \cup {Chain(Append(t, "A"), k) : t \in TopSet, k \in 1..(MaxDepth - 1)}

\* how many levels below extensions/ or skins/ a directory is
Depth(d) == Len(d) - 1

\* dirnames of os.walk for dirpath d
Children(d) == {c \in dirs : Len(c) = Len(d) + 1 /\ Front(c) = d}

\* the orders in which os.walk can list at most two directories
Orders(S) ==
    IF S = {} THEN {<<>>}
    ELSE {q \in UNION {[1..Cardinality(S) -> S]} : \A x \in S : \E i \in DOMAIN q : q[i] = x}

\* a slip: the walk is not pruned below the first level
Prune_nothing(d, dirnames) == dirnames

\* if dirpath not in tops: dirnames[:] = []
Prune(d, dirnames) == IF d \notin TopSet THEN {} ELSE dirnames

\* a slip: the failure is logged and the loop carries on
AfterCheckCall_swallowing(ok, k) ==
    IF k < Len(cmds)
    THEN [pc |-> "cmds", cmd |-> k + 1, exc |-> NoExc]
    ELSE [pc |-> "walk", cmd |-> 0, exc |-> NoExc]

\* for cmd in cmds: try: check_call(cmd, cwd=dirpath) except CalledProcessError: raise
AfterCheckCall(ok, k) ==
    IF ~ok THEN [pc |-> "done", cmd |-> 0, exc |-> "CalledProcessError"]
    ELSE IF k < Len(cmds)
    THEN [pc |-> "cmds", cmd |-> k + 1, exc |-> NoExc]
    ELSE [pc |-> "walk", cmd |-> 0, exc |-> NoExc]

SEv(cmd, cwd, res) == [cmd |-> cmd, cwd |-> cwd, res |-> res]

InitSubmodule ==
    /\ dirs \in {D \in SUBSET DirUniverse : \A d \in D : Len(d) = 1 \/ Front(d) \in D}
    /\ gitmodules \in SUBSET dirs
    /\ spc = "walk"
    /\ wtop = 1
    /\ wstack = <<>>
    /\ wdir = <<>>
    /\ wcmd = 0
    /\ slog = <<>>
    /\ sexc = NoExc

\* for top in tops: os.walk(top) begins; a top that does not exist yields nothing
walk_top ==
    /\ spc = "walk"
    /\ wstack = <<>>
    /\ wtop <= Len(tops)
    /\ wstack' = IF tops[wtop] \in dirs THEN <<tops[wtop]>> ELSE <<>>
    /\ wtop' = wtop + 1
    /\ UNCHANGED <<dirs, gitmodules, spc, wdir, wcmd, slog, sexc>>
    /\ UNCHANGED sOthers

\* os.walk yields the next (dirpath, dirnames, filenames); the body prunes
\* dirnames and looks for .gitmodules; the walk goes on into what is left
walk_next ==
    /\ spc = "walk"
    /\ wstack # <<>>
    /\ LET d == Head(wstack)
       IN /\ \E order \in Orders(Prune(d, Children(d))) :
                wstack' = order \o Tail(wstack)
          /\ IF d \in gitmodules
             THEN /\ spc' = "cmds"
                  /\ wdir' = d
                  /\ wcmd' = 1
             ELSE UNCHANGED <<spc, wdir, wcmd>>
    /\ UNCHANGED <<dirs, gitmodules, wtop, slog, sexc>>
    /\ UNCHANGED sOthers

\* subprocess.check_call(cmd, cwd=dirpath)
git_check_call ==
    /\ spc = "cmds"
    /\ \E ok \in BOOLEAN :
        /\ slog' = Append(slog, SEv(cmds[wcmd], wdir,
                                    IF ok THEN "ok" ELSE "CalledProcessError"))
        /\ spc' = AfterCheckCall(ok, wcmd).pc
        /\ wcmd' = AfterCheckCall(ok, wcmd).cmd
        /\ sexc' = AfterCheckCall(ok, wcmd).exc
    /\ UNCHANGED <<dirs, gitmodules, wtop, wstack, wdir>>
    /\ UNCHANGED sOthers

\* both tops are walked: execute() returns
submodule_return ==
    /\ spc = "walk"
    /\ wstack = <<>>
    /\ wtop > Len(tops)
    /\ spc' = "done"
    /\ UNCHANGED <<dirs, gitmodules, wtop, wstack, wdir, wcmd, slog, sexc>>
    /\ UNCHANGED sOthers

NextSubmodule ==
    \/ walk_top
    \/ walk_next
    \/ git_check_call
    \/ submodule_return

(***************************************************************************)
(* The environment of the commands run with env=...                        *)
(***************************************************************************)
eOthers == <<bVars, iVars, pVars, tVars, sVars, cVars, fVars, uVars>>

\* the variables a step sets, and one it does not
EnvNames ==
    {"COMPOSER_PROCESS_TIMEOUT", "LANG", "CHROME_BIN", "MW_SERVER",
     "MW_SCRIPT_PATH", "FORCE_COLOR", "CHROMIUM_FLAGS", "MEDIAWIKI_USER",
     "MEDIAWIKI_PASSWORD", "DISPLAY", "PATH"}

\* the value the ambient environment gives to a variable it defines: one no
\* step sets
AmbientValue(k) == "from os.environ"

\* dict.update: d with the entries of e written over it
update(d, e) ==
    [k \in (DOMAIN d) \cup (DOMAIN e) |-> IF k \in DOMAIN e THEN e[k] ELSE d[k]]

\* the empty dict
EmptyEnv == [k \in {} |-> ""]

\* 'http://127.0.0.1:%s' % HTTP_PORT
MwServer == "http://127.0.0.1:9412"

\* what quibble.chromium_flags() returns
ChromiumFlags == "quibble.chromium_flags()"

\* run_composer_test: env = {'COMPOSER_PROCESS_TIMEOUT': '900'}; env.update(os.environ)
composer_env(amb) ==
    update([k \in {"COMPOSER_PROCESS_TIMEOUT"} |-> "900"], amb)

\* a slip: LANG is set before os.environ is merged in
phpunit_env_ambient_last(amb) ==
    update([k \in {"LANG"} |-> "C.UTF-8"], amb)

\* run_phpunit: phpunit_env = {}; update(os.environ); update({'LANG': 'C.UTF-8'})
phpunit_env(amb) ==
    update(update(EmptyEnv, amb), [k \in {"LANG"} |-> "C.UTF-8"])

\* run_qunit: karma_env = {...}; update(os.environ); update({'CHROMIUM_FLAGS': ...})
karma_env(amb) ==
    update(update([k \in {"CHROME_BIN", "MW_SERVER", "MW_SCRIPT_PATH", "FORCE_COLOR"} |->
                     CASE k = "CHROME_BIN" -> "/usr/bin/chromium"
                       [] k = "MW_SERVER" -> MwServer
                       [] k = "MW_SCRIPT_PATH" -> "/"
                       [] k = "FORCE_COLOR" -> "1"],
                  amb),
           [k \in {"CHROMIUM_FLAGS"} |-> ChromiumFlags])

\* run_webdriver: webdriver_env = {}; update(os.environ); update({...})
webdriver_env(amb, display) ==
    update(update(EmptyEnv, amb),
           [k \in {"MW_SERVER", "MW_SCRIPT_PATH", "FORCE_COLOR", "MEDIAWIKI_USER",
                   "MEDIAWIKI_PASSWORD", "DISPLAY"} |->
              CASE k = "MW_SERVER" -> MwServer
                [] k = "MW_SCRIPT_PATH" -> "/"
                [] k = "FORCE_COLOR" -> "1"
                [] k = "MEDIAWIKI_USER" -> "WikiAdmin"
                [] k = "MEDIAWIKI_PASSWORD" -> "testwikijenkinspass"
                [] k = "DISPLAY" -> display])

InitEnv ==
    /\ environ \in {[k \in D |-> AmbientValue(k)] : D \in SUBSET EnvNames}
    /\ edisplay \in {":0", XvfbDisplay}
    /\ ecmd = "none"
    /\ eenv = EmptyEnv

\* subprocess.check_call(['composer', 'test', ...], env=env)
env_composer_test ==
    /\ ecmd = "none"
    /\ ecmd' = "composer test"
    /\ eenv' = composer_env(environ)
    /\ UNCHANGED <<environ, edisplay>>
    /\ UNCHANGED eOthers

\* subprocess.check_call(['php', 'tests/phpunit/phpunit.php', ...], env=phpunit_env)
env_phpunit ==
    /\ ecmd = "none"
    /\ ecmd' = "phpunit"
    /\ eenv' = phpunit_env(environ)
    /\ UNCHANGED <<environ, edisplay>>
    /\ UNCHANGED eOthers

\* subprocess.check_call(['./node_modules/.bin/grunt', 'qunit'], env=karma_env)
env_qunit ==
    /\ ecmd = "none"
    /\ ecmd' = "qunit"
    /\ eenv' = karma_env(environ)
    /\ UNCHANGED <<environ, edisplay>>
    /\ UNCHANGED eOthers

\* subprocess.check_call(['npm', 'run', 'selenium-test'], env=webdriver_env)
env_selenium ==
    /\ ecmd = "none"
    /\ ecmd' = "selenium"
    /\ eenv' = webdriver_env(environ, edisplay)
    /\ UNCHANGED <<environ, edisplay>>
    /\ UNCHANGED eOthers

NextEnv ==
    \/ env_composer_test
    \/ env_phpunit
    \/ env_qunit
    \/ env_selenium

(***************************************************************************)
(* CreateComposerLocal.execute                                             *)
(***************************************************************************)
cOthers == <<bVars, iVars, pVars, tVars, sVars, eVars, fVars, uVars>>

\* A name is a sequence of pieces: " " is a whitespace character, a piece
\* ending in "/" is a path segment with its separator.
\* Names without surrounding whitespace: extensions, a skin, core, a
\* third-party package, and names that hold 'mediawiki/extensions/' elsewhere
\* than at their start or only in part
BareNames ==
    { <<"mediawiki/", "extensions/", "Wikibase">>,
      <<"mediawiki/", "extensions/", "AbuseFilter">>,
      <<"mediawiki/", "skins/", "Vector">>,
      <<"mediawiki/", "core">>,
      <<"justinrainbow/", "jsonschema">>,
      <<"extensions/", "Wikibase">>,
      <<"mirror/", "mediawiki/", "extensions/", "Wikibase">>,
      <<"mediawiki/", " ", "extensions/", "Wikibase">> }

\* the same, with and without whitespace before and after
DependencyNames ==
    {l \o n \o r : l \in {<<>>, <<" ">>}, n \in BareNames, r \in {<<>>, <<" ">>}}

DependencyLists ==
    UNION {[1..n -> DependencyNames] : n \in 0..MaxDeps}

\* str.strip(): the name without its leading and trailing whitespace
strip(s) ==
    LET black == {i \in 1..Len(s) : s[i] # " "}
    IN IF black = {} THEN <<>>
       ELSE SubSeq(s, CHOOSE i \in black : \A j \in black : i <= j,
                      CHOOSE i \in black : \A j \in black : i >= j)

\* a slip: only the first piece of the prefix is compared
startswith_first_piece(s, prefix) ==
    Len(s) >= 1 /\ s[1] = prefix[1]

\* str.startswith(prefix)
startswith(s, prefix) ==
    Len(s) >= Len(prefix) /\ SubSeq(s, 1, Len(prefix)) = prefix

\* s[len(prefix):]
slice_from(s, prefix) == SubSeq(s, Len(prefix) + 1, Len(s))

\* [ext.strip()[len('mediawiki/'):] + '/composer.json'
\*  for ext in self.dependencies
\*  if ext.strip().startswith('mediawiki/extensions/')]
RECURSIVE extensions(_)
extensions(deps) ==
    IF deps = <<>> THEN <<>>
    ELSE (IF startswith(strip(Head(deps)), <<"mediawiki/", "extensions/">>)
          THEN << slice_from(strip(Head(deps)), <<"mediawiki/">>) \o <<"/composer.json">> >>
          ELSE <<>>)
         \o extensions(Tail(deps))

InitCreateComposerLocal ==
    /\ dependencies \in DependencyLists
    /\ cpc = "idle"
    /\ include = <<>>

\* execute(): json.dump({'extra': {'merge-plugin': {'include': extensions}}}, f)
CCL_execute ==
    /\ cpc = "idle"
    /\ include' = extensions(dependencies)
    /\ cpc' = "done"
    /\ UNCHANGED dependencies
    /\ UNCHANGED cOthers

NextCreateComposerLocal ==
    \/ CCL_execute

(***************************************************************************)
(* Steps that run a fixed list of commands: NpmInstall,                     *)
(* VendorComposerDependencies, run_extskin_composer, run_extskin_npm       *)
(***************************************************************************)
fOthers == <<bVars, iVars, pVars, tVars, sVars, eVars, cVars, uVars>>

FixedKinds ==
    {"NpmInstall", "VendorComposerDependencies", "run_extskin_composer", "run_extskin_npm"}

\* composer['require-dev'] as json.load gives it: the entries in the order
\* of the file, no dependency twice
RequireDevs ==
    {r \in UNION {[1..n -> {"phpunit/phpunit", "justinrainbow/jsonschema", "psy/psysh"}
                           \X {"^1.2.3", "4.8.36"}] : n \in 0..MaxReqs} :
        \A i, j \in 1..Len(r) : i # j => r[i][1] # r[j][1]}

\* a step with what it finds on disk: the require-dev section of
\* composer.json (VendorComposerDependencies, has_section FALSE when the key
\* is absent), the manifest of the directory (the extension sub-tasks)
FixedStep(kind, has_section, require_dev, manifest) ==
    [kind |-> kind, has_section |-> has_section, require_dev |-> require_dev,
     manifest |-> manifest]

FixedSteps ==
    {FixedStep("NpmInstall", FALSE, <<>>, FALSE)}
    \cup {FixedStep("VendorComposerDependencies", TRUE, r, FALSE) : r \in RequireDevs}
    \cup {FixedStep("VendorComposerDependencies", FALSE, <<>>, FALSE)}
    \cup {FixedStep(k, FALSE, <<>>, m) :
            k \in {"run_extskin_composer", "run_extskin_npm"}, m \in BOOLEAN}

\* ['='.join([dependency, version]) for dependency, version in ....items()]
reqs(require_dev) ==
    [i \in 1..Len(require_dev) |-> <<require_dev[i][1], "=", require_dev[i][2]>>]

\* one call: subprocess.check_call(argv) or copylog(src, dst)
Call(fn, argv, args) == [fn |-> fn, argv |-> argv, args |-> args]

\* the calls a step makes, in the order of its code
FixedCommands(s) ==
    CASE s.kind = "NpmInstall" ->
            << Call("check_call", "npm prune", <<>>),
               Call("check_call", "npm install", <<>>) >>
      [] s.kind = "VendorComposerDependencies" ->
            << Call("check_call",
                    "composer require --dev --ansi --no-progress --prefer-dist -v",
                    reqs(s.require_dev)),
               Call("check_call", "composer config extra.merge-plugin.include",
                    << <<"mw_composer_json">> >>),
               Call("check_call", "composer dump-autoload --optimize", <<>>),
               Call("copylog", "composer.json", << <<"composer.core.json.txt">> >>),
               Call("copylog", "vendor/composer.json", << <<"composer.vendor.json.txt">> >>),
               Call("copylog", "vendor/composer/autoload_files.php",
                    << <<"composer.autoload_files.php.txt">> >>) >>
      [] s.kind = "run_extskin_composer" ->
            IF ~s.manifest THEN <<>>
            ELSE << Call("check_call", "composer --ansi validate --no-check-publish", <<>>),
                    Call("check_call",
                         "composer --ansi install --no-progress --prefer-dist --profile -v",
                         <<>>),
                    Call("check_call", "composer --ansi test", <<>>) >>
      [] s.kind = "run_extskin_npm" ->
            IF ~s.manifest THEN <<>>
            ELSE << Call("check_call", "npm prune", <<>>),
                    Call("check_call", "npm install --no-progress", <<>>),
                    Call("check_call", "npm test", <<>>) >>

\* how a call can end: check_call as any blocking command, copylog with
\* success or an error copying the file
CallOutcomes(c) == IF c.fn = "check_call" THEN RunOutcomes ELSE {"ok", "OSError"}

\* a slip: the exception of a failed call is caught and the next call is made
AfterCall_continuing(o, i, n) == IF i = n THEN "done" ELSE "running"

\* where execute() is after call i of n: a call that raises ends execute()
AfterCall(o, i, n) == IF o # "ok" \/ i = n THEN "done" ELSE "running"

FEv(call, res) == [fn |-> call.fn, argv |-> call.argv, args |-> call.args, res |-> res]

InitFixed ==
    /\ fstep \in FixedSteps
    /\ fpc = "idle"
    /\ fcmds = <<>>
    /\ fidx = 1
    /\ flog = <<>>
    /\ fexc = NoExc

\* execute() up to its first call: composer['require-dev'] raises KeyError
\* when composer.json has no such section; a missing manifest returns
F_execute ==
    /\ fpc = "idle"
    /\ IF fstep.kind = "VendorComposerDependencies" /\ ~fstep.has_section
       THEN /\ fexc' = "KeyError"
            /\ fpc' = "done"
            /\ fcmds' = fcmds
       ELSE /\ fexc' = fexc
            /\ fcmds' = FixedCommands(fstep)
            /\ fpc' = IF fcmds' = <<>> THEN "done" ELSE "running"
    /\ UNCHANGED <<fstep, fidx, flog>>
    /\ UNCHANGED fOthers

\* the next subprocess.check_call(...) or copylog(...): it blocks, and
\* returns or raises out of execute()
F_call ==
    /\ fpc = "running"
    /\ \E o \in CallOutcomes(fcmds[fidx]) :
        /\ flog' = Append(flog, FEv(fcmds[fidx], o))
        /\ fexc' = IF o = "ok" THEN fexc ELSE o
        /\ fpc' = AfterCall(o, fidx, Len(fcmds))
    /\ fidx' = fidx + 1
    /\ UNCHANGED <<fstep, fcmds>>
    /\ UNCHANGED fOthers

NextFixed ==
    \/ F_execute
    \/ F_call

(***************************************************************************)
(* AbstractPhpUnit.run_phpunit, PhpUnitDatabaseless, PhpUnitDatabase       *)
(***************************************************************************)
uOthers == <<bVars, iVars, pVars, tVars, sVars, eVars, cVars, fVars>>

\* self.testsuite: None or the name of a suite
NoTestsuite == "None"
Testsuites == {NoTestsuite, "extensions"}

\* PhpUnitDatabaseless.__init__: junit_file = os.path.join(log_dir, 'junit-dbless.xml')
PhpUnitDatabaseless(testsuite) ==
    [class |-> "PhpUnitDatabaseless", testsuite |-> testsuite,
     junit_file |-> <<"log_dir/", "junit-dbless.xml">>]

\* PhpUnitDatabase.__init__: junit_file = os.path.join(log_dir, 'junit-db.xml')
PhpUnitDatabase(testsuite) ==
    [class |-> "PhpUnitDatabase", testsuite |-> testsuite,
     junit_file |-> <<"log_dir/", "junit-db.xml">>]

\* ','.join(l): the elements with a comma between two of them
RECURSIVE join(_)
join(l) ==
    IF Len(l) = 0 THEN <<>>
    ELSE IF Len(l) = 1 THEN <<l[1]>>
    ELSE <<l[1], ",">> \o join(Tail(l))

always_excluded == <<"Broken", "ParserFuzz", "Stub">>

\* the command run_phpunit builds; each word of the command is a sequence
\* of pieces
phpunit_cmd(self, group, exclude_group) ==
    << <<"php">>, <<"tests/phpunit/phpunit.php">>, <<"--debug-tests">> >>
    \o (IF self.testsuite # NoTestsuite
        THEN << <<"--testsuite">>, <<self.testsuite>> >> ELSE <<>>)
    \o (IF group # <<>> THEN << <<"--group">>, join(group) >> ELSE <<>>)
    \o << <<"--exclude-group">>, join(always_excluded \o exclude_group) >>
    \o (IF self.junit_file # <<>> THEN << <<"--log-junit">>, self.junit_file >> ELSE <<>>)

\* a slip: exclude_group.extend(always_excluded) instead of a new list
ListAfterPlus_extended(l, other) == l \o other

\* always_excluded + exclude_group builds a new list: an operand is left as
\* it was
ListAfterPlus(l, other) == l

UEv(self, cmd, res) == [class |-> self.class, cmd |-> cmd, res |-> res]

\* def run_phpunit(self, group=[], exclude_group=[]): the two lists are
\* made once, when the function is defined
InitPhpUnit ==
    /\ defaults = [group |-> <<>>, exclude_group |-> <<>>]
    /\ ulog = <<>>

\* PhpUnitDatabaseless(...).execute(): self.run_phpunit(exclude_group=['Database']);
\* group is the default list
PhpUnitDatabaseless_execute ==
    /\ Len(ulog) < MaxCalls
    /\ \E ts \in Testsuites, o \in {"ok", "CalledProcessError"} :
        ulog' = Append(ulog, UEv(PhpUnitDatabaseless(ts),
                                 phpunit_cmd(PhpUnitDatabaseless(ts), defaults.group,
                                             <<"Database">>),
                                 o))
    /\ defaults' = defaults
    /\ UNCHANGED uOthers

\* PhpUnitDatabase(...).execute(): self.run_phpunit(group=['Database']);
\* exclude_group is the default list
PhpUnitDatabase_execute ==
    /\ Len(ulog) < MaxCalls
    /\ \E ts \in Testsuites, o \in {"ok", "CalledProcessError"} :
        ulog' = Append(ulog, UEv(PhpUnitDatabase(ts),
                                 phpunit_cmd(PhpUnitDatabase(ts), <<"Database">>,
                                             defaults.exclude_group),
                                 o))
    /\ defaults' = [defaults EXCEPT
                      !.exclude_group = ListAfterPlus(defaults.exclude_group, always_excluded)]
    /\ UNCHANGED uOthers

NextPhpUnit ==
    \/ PhpUnitDatabaseless_execute
    \/ PhpUnitDatabase_execute

(***************************************************************************)
(* Specifications: one per component, the other components not constructed *)
(***************************************************************************)
IdleBrowser ==
    /\ step = UserCommands(<<>>)
    /\ seleniumDir = FALSE
    /\ pc = "unused"
    /\ scopes = <<>>
    /\ exc = NoExc
    /\ log = <<>>
    /\ cmdIdx = 1
    /\ strBefore = Str(step)
    /\ outcome = "none"
    /\ runs = 0
    /\ constructed = step

IdleInstall ==
    /\ imw = InstallMediaWiki("sqlite", FALSE)
    /\ ipc = "unused"
    /\ db_backend = NoDb
    /\ dbState = "unstarted"
    /\ ilog = <<>>
    /\ iexc = NoExc

IdlePipeline ==
    /\ pipeline = <<>>
    /\ pstate = "unused"
    /\ pcur = 1
    /\ pcalls = <<>>
    /\ pfailed = 0

IdleTasks ==
    /\ tstep = ComposerNpmTest("Core", FALSE, FALSE)
    /\ manifests = {}
    /\ changed = {}
    /\ workers = 1
    /\ tpc = "unused"
    /\ tasks = <<>>
    /\ tstatus = [t \in TaskNames |-> "none"]
    /\ tcmds = [t \in TaskNames |-> <<>>]
    /\ tidx = [t \in TaskNames |-> 1]
    /\ tlog = <<>>
    /\ texc = NoExc

IdleSubmodule ==
    /\ dirs = {}
    /\ gitmodules = {}
    /\ spc = "unused"
    /\ wtop = 1
    /\ wstack = <<>>
    /\ wdir = <<>>
    /\ wcmd = 0
    /\ slog = <<>>
    /\ sexc = NoExc

IdleEnv ==
    /\ environ = EmptyEnv
    /\ edisplay = ":0"
    /\ ecmd = "unused"
    /\ eenv = EmptyEnv


IdleCreateComposerLocal ==
    /\ dependencies = <<>>
    /\ cpc = "unused"
    /\ include = <<>>


IdleFixed ==
    /\ fstep = FixedStep("NpmInstall", FALSE, <<>>, FALSE)
    /\ fpc = "unused"
    /\ fcmds = <<>>
    /\ fidx = 1
    /\ flog = <<>>
    /\ fexc = NoExc


IdlePhpUnit ==
    /\ defaults = [group |-> <<>>, exclude_group |-> <<>>]
    /\ ulog = <<>>


InitSpecBrowser == InitBrowser /\ IdleInstall /\ IdlePipeline /\ IdleTasks /\ IdleSubmodule /\ IdleEnv /\ IdleCreateComposerLocal /\ IdleFixed /\ IdlePhpUnit
SpecBrowser == InitSpecBrowser /\ [][NextBrowser]_vars

InitSpecInstall == InitInstall /\ IdleBrowser /\ IdlePipeline /\ IdleTasks /\ IdleSubmodule /\ IdleEnv /\ IdleCreateComposerLocal /\ IdleFixed /\ IdlePhpUnit
SpecInstall == InitSpecInstall /\ [][NextInstall]_vars

InitSpecPipeline == InitPipeline /\ IdleBrowser /\ IdleInstall /\ IdleTasks /\ IdleSubmodule /\ IdleEnv /\ IdleCreateComposerLocal /\ IdleFixed /\ IdlePhpUnit
SpecPipeline == InitSpecPipeline /\ [][NextPipeline]_vars

InitSpecTasks == InitTasks /\ IdleBrowser /\ IdleInstall /\ IdlePipeline /\ IdleSubmodule /\ IdleEnv /\ IdleCreateComposerLocal /\ IdleFixed /\ IdlePhpUnit
SpecTasks == InitSpecTasks /\ [][NextTasks]_vars

InitSpecSubmodule == InitSubmodule /\ IdleBrowser /\ IdleInstall /\ IdlePipeline /\ IdleTasks /\ IdleEnv /\ IdleCreateComposerLocal /\ IdleFixed /\ IdlePhpUnit
SpecSubmodule == InitSpecSubmodule /\ [][NextSubmodule]_vars

InitSpecEnv == InitEnv /\ IdleBrowser /\ IdleInstall /\ IdlePipeline /\ IdleTasks /\ IdleSubmodule /\ IdleCreateComposerLocal /\ IdleFixed /\ IdlePhpUnit
SpecEnv == InitSpecEnv /\ [][NextEnv]_vars

InitSpecCreateComposerLocal == InitCreateComposerLocal /\ IdleBrowser /\ IdleInstall /\ IdlePipeline /\ IdleTasks /\ IdleSubmodule /\ IdleEnv /\ IdleFixed /\ IdlePhpUnit
SpecCreateComposerLocal == InitSpecCreateComposerLocal /\ [][NextCreateComposerLocal]_vars

InitSpecFixed == InitFixed /\ IdleBrowser /\ IdleInstall /\ IdlePipeline /\ IdleTasks /\ IdleSubmodule /\ IdleEnv /\ IdleCreateComposerLocal /\ IdlePhpUnit
SpecFixed == InitSpecFixed /\ [][NextFixed]_vars

InitSpecPhpUnit == InitPhpUnit /\ IdleBrowser /\ IdleInstall /\ IdlePipeline /\ IdleTasks /\ IdleSubmodule /\ IdleEnv /\ IdleCreateComposerLocal /\ IdleFixed
SpecPhpUnit == InitSpecPhpUnit /\ [][NextPhpUnit]_vars

\*-- end of the specifications


(***************************************************************************)
(* Properties                                                              *)
(***************************************************************************)
RECURSIVE SelectWhat(_, _, _)
\* the things on which `op` ended with a result in `rs`, in log order
SelectWhat(l, op, rs) ==
    IF l = <<>> THEN <<>>
    ELSE LET rest == SelectWhat(Front(l), op, rs)
             e == Last(l)
         IN IF e.op = op /\ e.res \in rs THEN Append(rest, e.what) ELSE rest

Reverse(s) == [i \in 1..Len(s) |-> s[Len(s) + 1 - i]]

\* the services started by this call, in start order
StartedSeq == SelectWhat(log, "start", {"ok"})
\* the services stopped by this call, in stop order (a failed stop is a stop)
StoppedSeq == SelectWhat(log, "stop", {"ok", "StopError"})

\* the exception raised by the body or by a start, before any stop
BodyExc ==
    LET bad == {i \in 1..Len(log) : log[i].op # "stop" /\ log[i].res # "ok"}
    IN IF bad = {} THEN NoExc
       ELSE log[CHOOSE i \in bad : \A j \in bad : i <= j].res

Finished == pc = "done"

StartOrders ==
    { <<>>, <<"DevWebServer">>, <<"DevWebServer", "Xvfb">>,
      <<"DevWebServer", "ChromeWebDriver">>,
      <<"DevWebServer", "Xvfb", "ChromeWebDriver">> }

\* C1: when BrowserTests.execute has ended, however it ended, the services it
\* started (web server, then Xvfb if any, then the web driver) have each been
\* stopped exactly once, in the reverse of the order they were started in.
C1_ReverseStopOnEveryExit ==
    (Finished /\ step.kind = "BrowserTests") =>
        /\ StartedSeq \in StartOrders
        /\ StoppedSeq = Reverse(StartedSeq)

\* all three services were started and an interrupt ended the call
C1_Witness ==
    /\ Finished /\ step.kind = "BrowserTests"
    /\ StartedSeq = <<"DevWebServer", "Xvfb", "ChromeWebDriver">>
    /\ outcome = "raised" /\ exc = "KeyboardInterrupt"

FailedStarts == {i \in 1..Len(log) : log[i].op = "start" /\ log[i].res # "ok"}

\* C2: when the start of Xvfb or of the web driver failed, execute() has
\* failed, run_webdriver was never invoked, and the services started before
\* are stopped exactly once in reverse start order.
C2_StartFailureUnwinds ==
    (/\ Finished /\ step.kind = "BrowserTests"
     /\ \E i \in FailedStarts : log[i].what \in {"Xvfb", "ChromeWebDriver"}) =>
        /\ outcome = "raised"
        /\ Idx(log, "run", "selenium") = {}
        /\ StoppedSeq = Reverse(StartedSeq)

\* the web driver failed to start after the web server and Xvfb had started
C2_Witness ==
    /\ Finished /\ step.kind = "BrowserTests"
    /\ \E i \in FailedStarts : log[i].what = "ChromeWebDriver"
    /\ StartedSeq = <<"DevWebServer", "Xvfb">>
    /\ StoppedSeq = <<"Xvfb", "DevWebServer">>

FailedStops == {i \in 1..Len(log) : log[i].op = "stop" /\ log[i].res # "ok"}

\* C6: a failure to stop a service while BrowserTests.execute or
\* UserCommands.execute unwinds is not raised: the other services are still
\* stopped in reverse order, and execute() ends with the failure of its body
\* if there was one and returns normally if there was none.
C6_StopFailureNotRaised ==
    (Finished /\ FailedStops # {}) =>
        /\ StoppedSeq = Reverse(StartedSeq)
        /\ exc = BodyExc
        /\ outcome = (IF BodyExc = NoExc THEN "returned" ELSE "raised")

\* the web driver failed to stop, the two services below it were stopped
\* after that, and the failure of the selenium run is what execute() raised
C6_Witness ==
    /\ Finished
    /\ \E i \in FailedStops : log[i].what = "ChromeWebDriver"
    /\ StoppedSeq = <<"ChromeWebDriver", "Xvfb", "DevWebServer">>
    /\ outcome = "raised" /\ exc = "CalledProcessError"

\* a stop failed on the way out of a body that had not failed
C6_WitnessReturn ==
    /\ Finished /\ step.kind = "UserCommands"
    /\ FailedStops # {} /\ BodyExc = NoExc /\ outcome = "returned"

\* C7: execute() changes none of the parameters captured at construction:
\* str(step) is the same after execute() as before it.
C7_StrUnchangedByExecute ==
    Finished => Str(step) = strBefore

IFinished == ipc = "done"

DbStarted == \E i \in 1..Len(ilog) : ilog[i].op = "db.start" /\ ilog[i].res = "ok"

\* C3 as stated: the database handle started by InstallMediaWiki.execute is
\* stopped by the time execute() has exited, normally or by a failure.
C3_DbStoppedAtExit ==
    (IFinished /\ DbStarted) => dbState = "stopped"

\* C3 as amended: execute() never stops the database it started: when
\* execute() has exited, normally or by a failure after the start, the
\* database is still running and the class attribute
\* InstallMediaWiki.db_backend refers to it.
C3_DbLeftRunningAtExit ==
    (IFinished /\ DbStarted) =>
        /\ dbState = "running"
        /\ db_backend = DbHandle(imw.db_engine)

\* execute() failed in update, after the database was started
C3_Witness ==
    /\ IFinished /\ DbStarted /\ iexc = "CalledProcessError"
    /\ ilog[Len(ilog)].op = "update"
    /\ dbState = "running"

\* execute() returned normally and the database is running
C3_WitnessReturn ==
    /\ IFinished /\ DbStarted /\ iexc = NoExc
    /\ dbState = "running"

\* C4: the driver invokes execute() on the steps in declared order, one at a
\* time and each at most once; after step j failed no later step is invoked,
\* step j is not invoked again, and the run ends halted, never completed.
C4_InOrderHaltOnFailure ==
    /\ \A i \in 1..Len(pcalls) : pcalls[i] = i
    /\ Len(pcalls) <= Len(pipeline)
    /\ (pstate = "running") => (pcur = Len(pcalls))
    /\ (pfailed # 0) => (Len(pcalls) = pfailed /\ pstate = "halted")
    /\ (pstate = "completed") => (pfailed = 0 /\ Len(pcalls) = Len(pipeline))

\* the second of three steps failed: the run is halted with two calls made
C4_Witness ==
    /\ Len(pipeline) = 3
    /\ pfailed = 2
    /\ pstate = "halted"
    /\ pcalls = <<1, 2>>

TFinished == tpc = "done"

Enabled(t) == IF t = "composer" THEN tstep.composer ELSE tstep.npm

\* the positions in tlog of the entries of a sub-task
TaskEvents(t) == {i \in 1..Len(tlog) : tlog[i].task = t}

\* C5: when execute() of ExtSkinComposerNpmTest or CoreNpmComposerTest gives
\* control back, every sub-task it was asked for (composer, npm) has run to
\* its end, also when the other one raised; execute() has failed if a
\* sub-task failed, and returned normally only if all of them succeeded.
C5_BatchFailsAndSiblingCompletes ==
    TFinished =>
        /\ \A t \in TaskNames : Enabled(t) =>
              /\ tstatus[t] \in {"ok", "failed"}
              /\ (tstatus[t] = "ok") => (tidx[t] = Len(tcmds[t]) + 1)
        /\ (\E t \in TaskNames : tstatus[t] = "failed") => (texc # NoExc)
        /\ (texc = NoExc) => (\A t \in TaskNames : Enabled(t) => tstatus[t] = "ok")

\* composer failed at its first command and npm ran its three commands to
\* the end after that failure; execute() failed
C5_Witness ==
    /\ TFinished /\ tstep.kind = "ExtSkin"
    /\ tstatus["composer"] = "failed" /\ tstatus["npm"] = "ok"
    /\ texc # NoExc
    /\ \E i \in TaskEvents("composer") :
          /\ tlog[i].res # "ok"
          /\ \A j \in TaskEvents("npm") : i < j
    /\ Cardinality(TaskEvents("npm")) = 3

\* the files of HEAD that 'composer test' lints one by one
PhpFiles == changed \cap {"a.php", "b.php5", "c.inc", "d.sample"}

ConfigChanged == "composer.json" \in changed \/ ".phpcs.xml" \in changed

ComposerTestCalls == {i \in TaskEvents("composer") : tlog[i].cmd = "composer test"}

\* C10: run_composer_test invokes 'composer test' exactly when composer.json
\* or .phpcs.xml changed (then with the argument '.') or a php, php5, inc or
\* sample file changed (then with exactly those files); otherwise it logs
\* that it skips, invokes no external command and succeeds.
C10_ComposerTestWhenNeeded ==
    (tstep.kind = "Core") =>
        /\ (ComposerTestCalls # {}) => (ConfigChanged \/ PhpFiles # {})
        /\ (tstatus["composer"] \in {"ok", "failed"}) =>
              /\ Cardinality(TaskEvents("composer")) = 1
              /\ \A i \in TaskEvents("composer") :
                    IF ConfigChanged
                    THEN tlog[i].cmd = "composer test" /\ tlog[i].args = {"."}
                    ELSE IF PhpFiles # {}
                    THEN tlog[i].cmd = "composer test" /\ tlog[i].args = PhpFiles
                    ELSE /\ tlog[i].cmd = "log"
                         /\ tlog[i].args = {"Skipping composer test (unneeded)"}
                         /\ tstatus["composer"] = "ok"

\* only .phpcs.xml and a php file changed: 'composer test .' was run
C10_Witness ==
    /\ tstep.kind = "Core" /\ tstatus["composer"] = "ok"
    /\ changed = {".phpcs.xml", "a.php"}
    /\ \E i \in ComposerTestCalls : tlog[i].args = {"."}

\* only a sample, an inc and a js file changed: the two are the arguments
C10_WitnessFiles ==
    /\ tstep.kind = "Core" /\ tstatus["composer"] = "ok"
    /\ changed = {"d.sample", "c.inc", "e.js"}
    /\ \E i \in ComposerTestCalls : tlog[i].args = {"d.sample", "c.inc"}

\* only a js file changed: the sub-task skipped and execute() returned
C10_WitnessSkip ==
    /\ tstep.kind = "Core" /\ tstatus["composer"] = "ok" /\ ~tstep.npm
    /\ changed = {"e.js"}
    /\ TFinished /\ texc = NoExc
    /\ Len(tlog) = 1 /\ tlog[1].cmd = "log"

FailedGit == {i \in 1..Len(slog) : slog[i].res # "ok"}

\* C8: once a git command has exited non-zero, execute() has raised that
\* CalledProcessError and no git command is invoked after it, neither for the
\* same directory nor for a directory that would have been visited later.
C8_GitFailureAborts ==
    \A i \in FailedGit :
        /\ i = Len(slog)
        /\ spc = "done"
        /\ sexc = "CalledProcessError"

\* the first command failed in extensions/A while skins/A, also holding a
\* .gitmodules, was still to be visited: nothing ran after the failure
C8_Witness ==
    /\ <<"extensions", "A">> \in gitmodules
    /\ <<"skins", "A">> \in gitmodules
    /\ Len(slog) = 1
    /\ slog[1].cwd = <<"extensions", "A">>
    /\ slog[1].res = "CalledProcessError"
    /\ spc = "done"

\* the directories execute() has to process: those at most one level below
\* extensions/ or skins/ that hold a .gitmodules file
ToProcess == {d \in gitmodules : Depth(d) <= 1}

\* position of a log entry within the commands of its directory
PosInDir(i) == ((i - 1) % Len(cmds)) + 1

\* C9: git commands are never run two or more levels below extensions/ or
\* skins/; in each directory processed the commands run are the three of
\* cmds in their order (up to the failing one, if one fails), no directory is
\* processed twice, and a run that returns has processed every first-level
\* directory holding .gitmodules with exactly the three commands.
C9_FirstLevelOnlyThreeCommands ==
    /\ \A i \in 1..Len(slog) :
          /\ Depth(slog[i].cwd) <= 1
          /\ slog[i].cwd \in ToProcess
          /\ slog[i].cmd = cmds[PosInDir(i)]
          /\ (PosInDir(i) > 1) => (slog[i].cwd = slog[i - 1].cwd)
          /\ \A j \in 1..Len(slog) :
                (slog[j].cwd = slog[i].cwd) => (j - PosInDir(j) = i - PosInDir(i))
    /\ (spc = "done" /\ sexc = NoExc) =>
          /\ Len(slog) = Len(cmds) * Cardinality(ToProcess)
          /\ \A d \in ToProcess : \E i \in 1..Len(slog) : slog[i].cwd = d

\* extensions/A and extensions/A/sub both hold .gitmodules: execute() has
\* returned after three commands in extensions/A and three in skins/B, none
\* in extensions/A/sub
C9_Witness ==
    /\ spc = "done" /\ sexc = NoExc
    /\ gitmodules = {<<"extensions", "A">>, <<"extensions", "A", "sub">>, <<"skins", "B">>}
    /\ Len(slog) = 6
    /\ slog[3].cwd = <<"extensions", "A">> /\ slog[3].cmd = "git submodule status"
    /\ slog[4].cwd = <<"skins", "B">>

(***************************************************************************)
(* The environment overlays                                                *)
(***************************************************************************)
EnvCommands == {"composer test", "phpunit", "qunit", "selenium"}

\* the variables a command's step sets, whatever their precedence
Overlay(c) ==
    CASE c = "composer test" -> {"COMPOSER_PROCESS_TIMEOUT"}
      [] c = "phpunit" -> {"LANG"}
      [] c = "qunit" -> {"CHROME_BIN", "MW_SERVER", "MW_SCRIPT_PATH", "FORCE_COLOR",
                         "CHROMIUM_FLAGS"}
      [] c = "selenium" -> {"MW_SERVER", "MW_SCRIPT_PATH", "FORCE_COLOR", "MEDIAWIKI_USER",
                            "MEDIAWIKI_PASSWORD", "DISPLAY"}

\* the variables a step sets only when the ambient environment does not
Defaults(c) ==
    CASE c = "composer test" -> {"COMPOSER_PROCESS_TIMEOUT"}
      [] c = "qunit" -> {"CHROME_BIN", "MW_SERVER", "MW_SCRIPT_PATH", "FORCE_COLOR"}
      [] OTHER -> {}

\* the value the step gives to an overlay variable
StepValue(k) ==
    CASE k = "COMPOSER_PROCESS_TIMEOUT" -> "900"
      [] k = "LANG" -> "C.UTF-8"
      [] k = "CHROME_BIN" -> "/usr/bin/chromium"
      [] k = "MW_SERVER" -> "http://127.0.0.1:9412"
      [] k = "MW_SCRIPT_PATH" -> "/"
      [] k = "FORCE_COLOR" -> "1"
      [] k = "CHROMIUM_FLAGS" -> ChromiumFlags
      [] k = "MEDIAWIKI_USER" -> "WikiAdmin"
      [] k = "MEDIAWIKI_PASSWORD" -> "testwikijenkinspass"
      [] k = "DISPLAY" -> edisplay

\* the ambient variables the step does not set are passed unchanged, and
\* nothing else is passed
AmbientPassedOn ==
    /\ DOMAIN eenv = (DOMAIN environ) \cup Overlay(ecmd)
    /\ \A k \in (DOMAIN environ) \ Overlay(ecmd) : eenv[k] = environ[k]

\* C11 as stated: the environment given to composer test, phpunit, qunit and
\* selenium is the ambient environment with the overlay merged over it: every
\* overlay variable has the step's value, also when the ambient environment
\* defines it, and every other ambient variable is passed unchanged.
C11_OverlayOverAmbient ==
    ecmd \in EnvCommands =>
        /\ AmbientPassedOn
        /\ \A k \in Overlay(ecmd) : eenv[k] = StepValue(k)

\* C11 amended: LANG (phpunit), CHROMIUM_FLAGS (qunit) and the six selenium
\* variables always have the step's value; COMPOSER_PROCESS_TIMEOUT (composer
\* test) and CHROME_BIN, MW_SERVER, MW_SCRIPT_PATH, FORCE_COLOR (qunit) have
\* the step's value only when the ambient environment does not define them,
\* and the ambient value when it does; every other ambient variable is passed
\* unchanged.
C11_ForcedAndDefaultOverlay ==
    ecmd \in EnvCommands =>
        /\ AmbientPassedOn
        /\ \A k \in Overlay(ecmd) \ Defaults(ecmd) : eenv[k] = StepValue(k)
        /\ \A k \in Defaults(ecmd) :
              eenv[k] = IF k \in DOMAIN environ THEN environ[k] ELSE StepValue(k)

\* qunit ran in an ambient environment that defines a default variable, a
\* forced variable and a variable the step does not set
C11_Witness ==
    /\ ecmd = "qunit"
    /\ {"CHROME_BIN", "CHROMIUM_FLAGS", "PATH"} \subseteq DOMAIN environ
    /\ eenv["CHROME_BIN"] = environ["CHROME_BIN"]
    /\ eenv["CHROMIUM_FLAGS"] = ChromiumFlags
    /\ eenv["PATH"] = environ["PATH"]

(***************************************************************************)
(* InstallMediaWiki: arguments, order, unsupported engines                 *)
(***************************************************************************)
\* the indexes of the entries of ilog for one operation
IIdx(op) == {i \in 1..Len(ilog) : ilog[i].op = op}

\* the options of an argument list, and the values they carry
Flags(args) == [i \in 1..Len(args) |-> args[i][1]]
Values(args) == [i \in 1..Len(args) |-> args[i][2]]

\* C12: the installer is called at most once, and exactly once by an
\* execute() that returns; its arguments are --scriptpath= (empty),
\* --dbtype=<engine>, --dbname=<db name>, followed by --dbpath only for sqlite
\* or by --dbuser, --dbpass, --dbserver in that order only for mysql and
\* postgres.  update is called at most once, and exactly once by an execute()
\* that returns, with ['--skip-external-dependencies'] iff use_vendor and
\* the empty list otherwise.
C12_InstallAndUpdateArguments ==
    /\ Cardinality(IIdx("install")) <= 1
    /\ Cardinality(IIdx("update")) <= 1
    /\ (ipc = "done" /\ iexc = NoExc) =>
          /\ Cardinality(IIdx("install")) = 1
          /\ Cardinality(IIdx("update")) = 1
    /\ \A i \in IIdx("install") :
          /\ Flags(ilog[i].args) =
                <<"--scriptpath", "--dbtype", "--dbname">> \o
                (CASE imw.db_engine = "sqlite" -> <<"--dbpath">>
                   [] imw.db_engine \in {"mysql", "postgres"} ->
                          <<"--dbuser", "--dbpass", "--dbserver">>)
          /\ SubSeq(Values(ilog[i].args), 1, 3) = <<"", imw.db_engine, "db.dbname">>
    /\ \A i \in IIdx("update") :
          /\ imw.use_vendor => ilog[i].args = <<"--skip-external-dependencies">>
          /\ ~imw.use_vendor => ilog[i].args = <<>>

\* execute() returned for mysql with use_vendor: the installer got the six
\* arguments and update the one
C12_Witness ==
    /\ ipc = "done" /\ iexc = NoExc
    /\ imw = InstallMediaWiki("mysql", TRUE)
    /\ \E i \in IIdx("install") : Len(ilog[i].args) = 6
    /\ \E i \in IIdx("update") : Len(ilog[i].args) = 1

\* execute() returned for sqlite without use_vendor
C12_WitnessSqlite ==
    /\ ipc = "done" /\ iexc = NoExc
    /\ imw = InstallMediaWiki("sqlite", FALSE)
    /\ \E i \in IIdx("install") : Len(ilog[i].args) = 4
    /\ \E i \in IIdx("update") : Len(ilog[i].args) = 0

\* C13 as stated: for a db_engine that is not sqlite, mysql or postgres,
\* no database handle has been started and no external operation has been
\* invoked at any point of execute(), and execute() does not return as if
\* the engine were supported.
C13_UnsupportedEngineBeforeStart ==
    imw.db_engine \notin {"sqlite", "mysql", "postgres"} =>
        /\ dbState = "unstarted"
        /\ IIdx("db.start") = {}
        /\ \A i \in 1..Len(ilog) :
              ilog[i].op \notin {"install", "php -l", "update"}
        /\ ipc = "done" => iexc # NoExc

\* what does hold: an unsupported engine never reaches the installer, the
\* lint or the update, and execute() raises
C13_UnsupportedEngineRaises ==
    imw.db_engine \notin {"sqlite", "mysql", "postgres"} =>
        /\ \A i \in 1..Len(ilog) : ilog[i].op = "db.start"
        /\ ipc = "done" => iexc # NoExc

\* the unsupported engine was found out with the database running
C13_StartedThenRaised ==
    /\ imw.db_engine \notin {"sqlite", "mysql", "postgres"}
    /\ ipc = "done" /\ iexc = "Exception"
    /\ dbState = "running"

\* the order of the operations of execute()
InstallOrder ==
    <<"db.start", "install", "prepend LocalSettings.php", "php -l", "update",
      "rebuildLocalisationCache">>

\* C20: the operations of execute() are invoked in the order start database,
\* installer, prepend settings, lint, update, rebuild localisation cache, each
\* only after the one before it succeeded; after a failure none of the later
\* ones is invoked, and an execute() that returns has invoked all six.
C20_FixedOrderStopAtFailure ==
    /\ Len(ilog) <= Len(InstallOrder)
    /\ \A i \in 1..Len(ilog) :
          /\ ilog[i].op = InstallOrder[i]
          /\ i < Len(ilog) => ilog[i].res = "ok"
    /\ (Len(ilog) > 0 /\ Last(ilog).res # "ok") => (ipc = "done" /\ iexc # NoExc)
    /\ (ipc = "done" /\ iexc = NoExc) => Len(ilog) = Len(InstallOrder)

\* the lint failed: execute() ended with the four operations up to it
C20_Witness ==
    /\ ipc = "done" /\ iexc = "CalledProcessError"
    /\ Len(ilog) = 4
    /\ ilog[4].op = "php -l" /\ ilog[4].res = "CalledProcessError"

\* execute() returned after the six operations
C20_WitnessReturn ==
    /\ ipc = "done" /\ iexc = NoExc
    /\ Len(ilog) = 6

(***************************************************************************)
(* CreateComposerLocal: the include list                                   *)
(***************************************************************************)
\* the name without the whitespace at its ends, one character at a time
RECURSIVE Stripped(_)
Stripped(s) ==
    IF s = <<>> THEN s
    ELSE IF Head(s) = " " THEN Stripped(Tail(s))
    ELSE IF Last(s) = " " THEN Stripped(Front(s))
    ELSE s

\* the dependency is an extension
IsExtension(d) ==
    /\ Len(Stripped(d)) >= 2
    /\ Stripped(d)[1] = "mediawiki/"
    /\ Stripped(d)[2] = "extensions/"

\* the positions of the extensions in the dependency list
ExtensionPositions == {i \in 1..Len(dependencies) : IsExtension(dependencies[i])}

\* C14: the include list written by CreateComposerLocal.execute holds, in
\* dependency order, exactly one entry '<name without mediawiki/>/composer.json'
\* for each dependency whose whitespace-stripped name starts with
\* 'mediawiki/extensions/', and no entry for any other dependency.
C14_IncludeList ==
    cpc = "done" =>
        /\ Len(include) = Cardinality(ExtensionPositions)
        /\ \A i \in ExtensionPositions :
              include[Cardinality({j \in ExtensionPositions : j <= i})] =
                  Tail(Stripped(dependencies[i])) \o <<"/composer.json">>

\* two extensions, the first one padded with whitespace, written in order
C14_Witness ==
    /\ cpc = "done"
    /\ Len(dependencies) = 2
    /\ dependencies[1] = <<" ", "mediawiki/", "extensions/", "Wikibase", " ">>
    /\ include = << <<"extensions/", "Wikibase", "/composer.json">>,
                    <<"extensions/", "AbuseFilter", "/composer.json">> >>

\* an extension after a third-party package: one entry
C14_WitnessMixed ==
    /\ cpc = "done"
    /\ dependencies = << <<"justinrainbow/", "jsonschema">>,
                         <<"mediawiki/", "extensions/", "Wikibase">> >>
    /\ include = << <<"extensions/", "Wikibase", "/composer.json">> >>

(***************************************************************************)
(* ExtSkinComposerNpmTest: missing manifests and git clean                 *)
(***************************************************************************)
IsExternal(e) == e.cmd # "log"

\* the external commands of a log, in order
CommandsOf(l) == LET x == SelectSeq(l, IsExternal) IN [i \in 1..Len(x) |-> x[i].cmd]

\* the external commands one sub-task invoked, in order
TaskCommandsRun(t) ==
    LET OfTask(e) == e.task = t IN CommandsOf(SelectSeq(tlog, OfTask))

Manifest(t) == IF t = "composer" THEN "composer.json" ELSE "package.json"

\* the three commands of a sub-task whose manifest is present
ThreeCommands(t) ==
    IF t = "composer"
    THEN <<"composer --ansi validate --no-check-publish",
           "composer --ansi install --no-progress --prefer-dist --profile -v",
           "composer --ansi test">>
    ELSE <<"npm prune", "npm install --no-progress", "npm test">>

IsPrefix(a, b) == Len(a) <= Len(b) /\ a = SubSeq(b, 1, Len(a))

\* C15: in ExtSkinComposerNpmTest a sub-task whose manifest is missing
\* invokes no external command and does not fail; with both sub-tasks enabled
\* and both manifests missing the only external command of execute() is one
\* 'git clean -xqdf'; a sub-task whose manifest is present runs its three
\* commands in order, ending with 'composer --ansi test' or 'npm test', as
\* far as they succeed.
C15_MissingManifestSkips ==
    tstep.kind = "ExtSkin" =>
        /\ \A t \in TaskNames :
              /\ Manifest(t) \notin manifests =>
                    /\ TaskCommandsRun(t) = <<>>
                    /\ tstatus[t] # "failed"
              /\ Manifest(t) \in manifests =>
                    /\ IsPrefix(TaskCommandsRun(t), ThreeCommands(t))
                    /\ tstatus[t] = "ok" => TaskCommandsRun(t) = ThreeCommands(t)
        /\ (tstep.composer /\ tstep.npm /\ manifests = {}) =>
              /\ IsPrefix(CommandsOf(tlog), <<"git clean -xqdf">>)
              /\ TFinished => CommandsOf(tlog) = <<"git clean -xqdf">>
              /\ (texc # NoExc) => (Len(tlog) > 0 /\ Last(tlog).res # "ok"
                                     /\ Last(tlog).cmd = "git clean -xqdf")

\* both sub-tasks enabled, both manifests missing: both logged that they
\* skip, git clean ran and execute() returned
C15_Witness ==
    /\ tstep = ComposerNpmTest("ExtSkin", TRUE, TRUE)
    /\ manifests = {}
    /\ TFinished /\ texc = NoExc
    /\ Len(tlog) = 3
    /\ CommandsOf(tlog) = <<"git clean -xqdf">>

\* composer.json present, package.json missing: composer ran its three
\* commands and npm none
C15_WitnessPresent ==
    /\ tstep = ComposerNpmTest("ExtSkin", TRUE, TRUE)
    /\ manifests = {"composer.json"}
    /\ TFinished /\ texc = NoExc
    /\ TaskCommandsRun("composer") = ThreeCommands("composer")
    /\ TaskCommandsRun("npm") = <<>>

\* the positions in tlog of git clean
GitCleans == {i \in 1..Len(tlog) : tlog[i].cmd = "git clean -xqdf"}

\* C16: 'git clean -xqdf' runs at most once; when it is about to run and
\* once it has run every sub-task of the batch has finished, none is pending
\* or running, and none has failed; nothing runs after it.
C16_GitCleanAfterBatch ==
    /\ Cardinality(GitCleans) <= 1
    /\ (tpc = "git_clean" \/ GitCleans # {}) =>
          /\ tstep.kind = "ExtSkin"
          /\ \A t \in TaskNames :
                IF Enabled(t) THEN tstatus[t] = "ok" ELSE tstatus[t] = "none"
    /\ \A i \in GitCleans : i = Len(tlog)
    /\ (\E t \in TaskNames : tstatus[t] = "failed") => GitCleans = {}

\* both sub-tasks ran their three commands, then git clean ran
C16_Witness ==
    /\ tstep = ComposerNpmTest("ExtSkin", TRUE, TRUE)
    /\ manifests = {"composer.json", "package.json"}
    /\ Len(tlog) = 7
    /\ GitCleans = {7}

\* a sub-task failed: execute() ended without git clean
C16_WitnessFailed ==
    /\ tstep.kind = "ExtSkin"
    /\ TFinished /\ texc = "Exception"
    /\ \E t \in TaskNames : tstatus[t] = "failed"
    /\ \E t \in TaskNames : tstatus[t] = "ok" /\ TaskCommandsRun(t) = ThreeCommands(t)
    /\ GitCleans = {}

(***************************************************************************)
(* BrowserTests and UserCommands: the services that are running            *)
(***************************************************************************)
\* how many services of a kind are running after the first n entries of log:
\* those started with success and not yet stopped
RunningAfter(svc, n) ==
    Cardinality({i \in Idx(log, "start", svc) : i <= n /\ log[i].res = "ok"})
    - Cardinality({i \in Idx(log, "stop", svc) : i <= n})

\* how many handles of a kind the with statements and the ExitStack hold
Held(svc) == Cardinality({i \in 1..Len(scopes) : scopes[i] = svc})

RunIdx == {i \in 1..Len(log) : log[i].op = "run"}

\* C17: at every point of a run of BrowserTests and UserCommands steps, in any
\* order, at most one web server, bound to port 9412, and at most one Xvfb, on
\* display :94, are running; none is left running between two steps; qunit,
\* selenium and the user commands are invoked only while the web server their
\* own execute() started is running.
C17_OneWebServerOneXvfb ==
    /\ \A svc \in {"DevWebServer", "Xvfb"} :
          /\ \A n \in 0..Len(log) : RunningAfter(svc, n) \in {0, 1}
          /\ Held(svc) = RunningAfter(svc, Len(log))
          /\ pc \in {"idle", "done"} => Held(svc) = 0
    /\ \A i \in Idx(log, "start", "DevWebServer") : log[i].arg = HTTP_PORT
    /\ \A i \in Idx(log, "start", "Xvfb") : log[i].arg = XvfbDisplay
    /\ \A i \in RunIdx : RunningAfter("DevWebServer", i - 1) = 1

\* the second step of a run executes selenium with its own web server and
\* Xvfb running, the services of the first step being stopped
C17_Witness ==
    /\ runs = 2
    /\ pc = "unwind"
    /\ scopes = <<"DevWebServer", "Xvfb", "ChromeWebDriver">>
    /\ \E i \in RunIdx : log[i].what = "selenium"

\* C18 as stated: in every call of execute() on a BrowserTests step
\* constructed without a display, whenever ChromeWebDriver is started an Xvfb
\* on the same display was started earlier in that call and is still running;
\* for a step constructed with a display, Xvfb is never started and the
\* driver and the selenium run use exactly that display.
C18_DriverOnStartedXvfb ==
    (step.kind = "BrowserTests" /\ pc # "idle") =>
        /\ constructed.display = NoDisplay =>
              \A i \in Idx(log, "start", "ChromeWebDriver") :
                  /\ RunningAfter("Xvfb", i - 1) = 1
                  /\ \E j \in Idx(log, "start", "Xvfb") :
                        j < i /\ log[j].res = "ok" /\ log[j].arg = log[i].arg
        /\ constructed.display # NoDisplay =>
              /\ Idx(log, "start", "Xvfb") = {}
              /\ \A i \in Idx(log, "start", "ChromeWebDriver") \cup Idx(log, "run", "selenium") :
                    log[i].arg = constructed.display

\* what does hold: the same, for the first call of execute() on the object
C18_FirstCallDriverOnStartedXvfb ==
    strBefore = Str(constructed) => C18_DriverOnStartedXvfb

\* a second call of execute() on a step constructed without a display
\* started ChromeWebDriver with no Xvfb running
C18_DriverWithoutXvfb ==
    /\ step.kind = "BrowserTests" /\ pc # "idle"
    /\ constructed.display = NoDisplay
    /\ \E i \in Idx(log, "start", "ChromeWebDriver") : RunningAfter("Xvfb", i - 1) = 0

\* the user commands run, in order
CommandsRun == LET IsRun(e) == e.op = "run"
                   x == SelectSeq(log, IsRun)
               IN [i \in 1..Len(x) |-> x[i].what]

\* C19: UserCommands.execute runs the commands in the given order, each at
\* most once and only while the web server is running; a command that fails
\* is the last one run and makes execute() fail; the web server, once
\* started, is stopped exactly once when execute() ends, with or without a
\* failure; an execute() that returns has run every command.
C19_UserCommandsInOrder ==
    (step.kind = "UserCommands" /\ pc \notin {"idle", "unused"}) =>
        /\ IsPrefix(CommandsRun, step.commands)
        /\ \A i \in RunIdx :
              /\ RunningAfter("DevWebServer", i - 1) = 1
              /\ log[i].res # "ok" =>
                    /\ \A j \in RunIdx : j <= i
                    /\ exc # NoExc
                    /\ Finished => outcome = "raised"
        /\ Finished =>
              /\ Cardinality(Idx(log, "stop", "DevWebServer")) =
                    Cardinality({i \in Idx(log, "start", "DevWebServer") : log[i].res = "ok"})
              /\ Cardinality(Idx(log, "start", "DevWebServer")) = 1
              /\ outcome = "returned" => CommandsRun = step.commands

\* the first of two commands exited non-zero: execute() raised, the second
\* command was not run and the web server was stopped
C19_Witness ==
    /\ step = UserCommands(<<"cmd1", "cmd2">>)
    /\ Finished /\ outcome = "raised"
    /\ Len(log) = 3
    /\ log[2] = Ev("run", "cmd1", NoDisplay, "CalledProcessError")
    /\ log[3].op = "stop" /\ log[3].what = "DevWebServer"

\* both commands succeeded, in order, and the web server was stopped
C19_WitnessReturn ==
    /\ step = UserCommands(<<"cmd1", "cmd2">>)
    /\ Finished /\ outcome = "returned"
    /\ CommandsRun = <<"cmd1", "cmd2">>
    /\ Cardinality(Idx(log, "stop", "DevWebServer")) = 1

(***************************************************************************)
(* The steps that run a fixed list of commands                             *)
(***************************************************************************)
\* the commands of each step, as the claim lists them
ListedCommands ==
    CASE fstep.kind = "NpmInstall" -> <<"npm prune", "npm install">>
      [] fstep.kind = "run_extskin_composer" ->
            IF fstep.manifest
            THEN <<"composer --ansi validate --no-check-publish",
                   "composer --ansi install --no-progress --prefer-dist --profile -v",
                   "composer --ansi test">>
            ELSE <<>>
      [] fstep.kind = "run_extskin_npm" ->
            IF fstep.manifest
            THEN <<"npm prune", "npm install --no-progress", "npm test">>
            ELSE <<>>
      [] fstep.kind = "VendorComposerDependencies" ->
            <<"composer require --dev --ansi --no-progress --prefer-dist -v",
              "composer config extra.merge-plugin.include",
              "composer dump-autoload --optimize",
              "composer.json", "vendor/composer.json",
              "vendor/composer/autoload_files.php">>

\* the commands invoked so far, in order
Invoked == [i \in 1..Len(flog) |-> flog[i].argv]

FFinished == fpc = "done"

\* C21: NpmInstall, run_extskin_composer, run_extskin_npm and
\* VendorComposerDependencies invoke their commands in the listed order,
\* each at most once; a command is invoked only after the one before it
\* exited 0; the first failure ends execute() with that failure; an execute()
\* that returns has invoked the whole list; 'composer require --dev' gets
\* <dependency>=<version> for each require-dev entry, in the order of the
\* entries.
C21_FixedListInOrder ==
    /\ IsPrefix(Invoked, ListedCommands)
    /\ \A i \in 1..Len(flog) :
          /\ i < Len(flog) => flog[i].res = "ok"
          /\ flog[i].res # "ok" => (FFinished /\ fexc = flog[i].res)
    /\ (FFinished /\ fexc = NoExc) => Invoked = ListedCommands
    /\ (fstep.kind = "VendorComposerDependencies" /\ Len(flog) >= 1) =>
          /\ Len(flog[1].args) = Len(fstep.require_dev)
          /\ \A k \in 1..Len(fstep.require_dev) :
                flog[1].args[k] = <<fstep.require_dev[k][1], "=", fstep.require_dev[k][2]>>

\* VendorComposerDependencies with two require-dev entries: dump-autoload
\* exited non-zero, execute() raised and no log was copied
C21_Witness ==
    /\ fstep.kind = "VendorComposerDependencies"
    /\ Len(fstep.require_dev) = 2
    /\ FFinished /\ fexc = "CalledProcessError"
    /\ Len(flog) = 3
    /\ Len(flog[1].args) = 2
    /\ flog[3].argv = "composer dump-autoload --optimize"

\* VendorComposerDependencies ran its three commands and copied the three logs
C21_WitnessReturn ==
    /\ fstep.kind = "VendorComposerDependencies"
    /\ FFinished /\ fexc = NoExc
    /\ Len(flog) = 6

\* npm prune failed in NpmInstall: npm install was not invoked
C21_WitnessNpm ==
    /\ fstep.kind = "NpmInstall"
    /\ FFinished /\ fexc = "CalledProcessError"
    /\ Invoked = <<"npm prune">>

(***************************************************************************)
(* phpunit: the groups and the junit files                                 *)
(***************************************************************************)
\* the positions of an option in a command
OptionAt(cmd, opt) == {k \in 1..Len(cmd) : cmd[k] = <<opt>>}

\* the option is given once, followed by the value
HasOption(cmd, opt, value) ==
    /\ Cardinality(OptionAt(cmd, opt)) = 1
    /\ \A k \in OptionAt(cmd, opt) : k < Len(cmd) /\ cmd[k + 1] = value

\* C22: after any sequence of PhpUnitDatabaseless.execute and
\* PhpUnitDatabase.execute calls, every phpunit invocation excludes exactly
\* Broken, ParserFuzz, Stub plus the groups given for that call, whatever the
\* calls before it: the databaseless step excludes Database as well and
\* selects no group and writes junit-dbless.xml; the database step excludes
\* the three only, selects only group Database and writes junit-db.xml; the
\* default argument lists stay empty.
C22_GroupsDoNotAccumulate ==
    /\ \A i \in 1..Len(ulog) :
          IF ulog[i].class = "PhpUnitDatabaseless"
          THEN /\ HasOption(ulog[i].cmd, "--exclude-group",
                            <<"Broken", ",", "ParserFuzz", ",", "Stub", ",", "Database">>)
               /\ OptionAt(ulog[i].cmd, "--group") = {}
               /\ HasOption(ulog[i].cmd, "--log-junit", <<"log_dir/", "junit-dbless.xml">>)
          ELSE /\ HasOption(ulog[i].cmd, "--exclude-group",
                            <<"Broken", ",", "ParserFuzz", ",", "Stub">>)
               /\ HasOption(ulog[i].cmd, "--group", <<"Database">>)
               /\ HasOption(ulog[i].cmd, "--log-junit", <<"log_dir/", "junit-db.xml">>)
    /\ defaults.group = <<>>
    /\ defaults.exclude_group = <<>>

\* database, databaseless, database again: the third invocation excludes
\* the three groups, as the first did
C22_Witness ==
    /\ Len(ulog) = 3
    /\ ulog[1].class = "PhpUnitDatabase"
    /\ ulog[2].class = "PhpUnitDatabaseless"
    /\ ulog[3].class = "PhpUnitDatabase"
    /\ ulog[3].cmd[Len(ulog[3].cmd) - 2] = join(always_excluded)

====
